---- MODULE Spec2Model ----
(***************************************************************************)
(* A model of the pipeline engine: the per-element cache (Cacher), the     *)
(* leaf wrapper (Block.run / Cacher.cached), the sequential executor       *)
(* (Pipeline._run) and the iterative executor (IterativePipeline._run).    *)
(*                                                                         *)
(* Names are sequences of one-character strings, so that the suffix tests  *)
(* of the code (str.endswith) are computed character by character.        *)
(* Values passed between steps, hashes and instance IDs are sequences of   *)
(* strings.  A run of the root element is one action; the walk of the     *)
(* tree is computed by the recursive operators below, which thread the     *)
(* world (stores on disk, attributes of the objects, the log of the run).  *)
(***************************************************************************)
EXTENDS Naturals, Sequences, FiniteSets, TLC

VARIABLES tree, cache, memo, iids, fnVer, maxSaved, last, prev, nruns, exe

vars == <<tree, cache, memo, iids, fnVer, maxSaved, last, prev, nruns, exe>>

(***************************************************************************)
(* Bounds of the model.                                                    *)
(***************************************************************************)
MaxRuns == 2
MaxSavedLimit == 2
MaxOps == 4
MaxKeys == 2
MaxSwitchKeys == 4
MaxBoundary == 3
MaxLists == 3
MaxEdits == 2
MaxObjects == 5
MaxTupleLen == 2
MaxTries == 4

(***************************************************************************)
(* Sequences helpers.                                                      *)
(***************************************************************************)
RECURSIVE Concat(_)
Concat(ss) == IF ss = <<>> THEN <<>> ELSE Head(ss) \o Concat(Tail(ss))

SeqRange(s) == {s[i] : i \in 1..Len(s)}

\* str.endswith(suffix), character by character
EndsWith(s, suffix) ==
    /\ Len(suffix) <= Len(s)
    /\ SubSeq(s, Len(s) - Len(suffix) + 1, Len(s)) = suffix

\* Python's s[:n] for n >= 0
Take(s, n) == SubSeq(s, 1, IF n <= Len(s) THEN n ELSE Len(s))

(***************************************************************************)
(* Hierarchy: elements, composite names, collapsed children.               *)
(***************************************************************************)
DOT == "."
\* untilStep / _fromStep = None; the empty string is <<>>
NoStep == <<"None">>
\* `if untilStep and ...`
Truthy(step) == step # NoStep /\ step # <<>>

\* kind, name, the source of fn in its successive versions (leaf), the
\* children (node), and whether the element caches its runs
Block(name, toks) ==
    [cache |-> TRUE, name |-> name, kind |-> "leaf", tok |-> toks, steps |-> <<>>]
Pipeline(name, steps) ==
    [cache |-> TRUE, name |-> name, kind |-> "pipe", tok |-> <<>>, steps |-> steps]
\* cache is doCache, the flag given to the pipeline built for each key
IterativePipeline(name, steps) ==
    [cache |-> TRUE, name |-> name, kind |-> "iter", tok |-> <<>>, steps |-> steps]

IsPipeline(node) == node.kind \in {"pipe", "iter"}

\* compositeName of a child whose parent has composite name pcn
compositeName(pcn, name) == pcn \o <<DOT>> \o name

\* the leaves below a node, as <<composite name, node>> records, depth first
RECURSIVE collapsedChildren(_, _)
collapsedChildren(node, cn) ==
    Concat([i \in 1..Len(node.steps) |->
        LET ch == node.steps[i]
            ccn == compositeName(cn, ch.name)
        IN IF IsPipeline(ch) THEN collapsedChildren(ch, ccn)
           ELSE <<[node |-> ch, cn |-> ccn]>>])

collapsedNames(node, cn) ==
    LET cc == collapsedChildren(node, cn) IN [i \in 1..Len(cc) |-> cc[i].cn]

\* every descendant, parents included, depth first (parent before children)
RECURSIVE collapsedChildrenAndParents(_, _)
collapsedChildrenAndParents(node, cn) ==
    Concat([i \in 1..Len(node.steps) |->
        LET ch == node.steps[i]
            ccn == compositeName(cn, ch.name)
        IN <<[node |-> ch, cn |-> ccn]>> \o
           (IF IsPipeline(ch) THEN collapsedChildrenAndParents(ch, ccn) ELSE <<>>)])

\* the composite names of all the elements of the tree rooted at root
ElemNames(root) ==
    {root.name} \cup
    {e.cn : e \in SeqRange(collapsedChildrenAndParents(root, root.name))}

LeafNames(root) == SeqRange(collapsedNames(root, root.name))

\* lastChild: the last leaf below a node (its composite name)
lastChild(node, cn) ==
    LET cc == collapsedNames(node, cn) IN cc[Len(cc)]

\* (variant: any(self.collapsedNamedSteps), whatever the names end with)
AnyLeafAtAll(node, cn, s) == collapsedNames(node, cn) # <<>>
\* any(x.endswith(s) for x in self.collapsedNamedSteps)
AnyLeafEndsWith(node, cn, s) ==
    \E x \in SeqRange(collapsedNames(node, cn)) : EndsWith(x, s)

\* isParentOf: the element's composite name is a dotted prefix of the other
isParentOf(cn, other) ==
    /\ Len(cn) <= Len(other)
    /\ SubSeq(other, 1, Len(cn)) = cn
    /\ (Len(other) = Len(cn) \/ other[Len(cn) + 1] = DOT)

(***************************************************************************)
(* Hashes (HashFactory.compute): SHA-512 is taken to be collision free; a  *)
(* hash is the value tagged, so that equal hashes mean equal values.       *)
(***************************************************************************)
NoneHash == <<"None">>
Hash(v) == <<"#">> \o v
\* the hash of the positional arguments (inp,) of Block.run
HashArgs(inp) == Hash(<<"(">> \o inp \o <<")">>)

\* the code hash: a leaf hashes name + source(fn), a pipeline its name (and
\* configuration) with the hashes of its steps
RECURSIVE CodeHash(_, _, _)
CodeHash(node, cn, ver) ==
    IF node.kind = "leaf"
    THEN Hash(node.name \o <<"src", node.tok[ver[cn] + 1]>>)
    ELSE Hash(node.name \o <<"cfg">> \o
              Concat([i \in 1..Len(node.steps) |->
                  CodeHash(node.steps[i], compositeName(cn, node.steps[i].name), ver)]))

(***************************************************************************)
(* The stores of a cache slot.  A store is a shelve file: a mapping that   *)
(* lists its keys in the order of their first insertion; writing an        *)
(* existing key keeps its place.  A store that was never written and one   *)
(* without the key both make the load fail with InvalidCache.              *)
(***************************************************************************)
Keys(store) == [i \in 1..Len(store) |-> store[i].k]
Has(store, k) == \E i \in 1..Len(store) : store[i].k = k
Get(store, k) == store[CHOOSE i \in 1..Len(store) : store[i].k = k].v
Put(store, k, v) ==
    IF Has(store, k)
    THEN [i \in 1..Len(store) |-> IF store[i].k = k THEN [v |-> v, k |-> k] ELSE store[i]]
    ELSE Append(store, [v |-> v, k |-> k])
Del(store, k) == SelectSeq(store, LAMBDA e : e.k # k)
DelAll(store, ks) == SelectSeq(store, LAMBDA e : e.k \notin SeqRange(ks))

NoFile == <<>>
\* hash.pkl, input_hash, output_hash, output, cached_instances
EmptySlot == [hash |-> NoFile, ih |-> <<>>, oh |-> <<>>, out |-> <<>>, ci |-> <<>>]

\* str(self.instID): the key of an instance in the stores
NoInst == <<>>
InstKey(inst) == IF inst = NoInst THEN <<"None">> ELSE inst

\* os.path.join(str(self.instID), str(key))
JoinInst(inst, key) == inst \o <<"/", key>>

(***************************************************************************)
(* Cacher                                                                  *)
(***************************************************************************)
\* Cacher.saveInputHash: the remembered input hash and the code hash
saveInputHash(slot, inst, inputHash, codeHash) ==
    [slot EXCEPT !.ih = Put(@, InstKey(inst), inputHash), !.hash = codeHash]

\* (variant: the instances are registered last first)
saveInstancesReversed(slot, inst, instIDs) ==
    [slot EXCEPT !.ci = Put(@, InstKey(inst),
                            [i \in 1..Len(instIDs) |-> instIDs[Len(instIDs) + 1 - i]])]
\* (variant: an empty list of instances is not registered)
saveInstancesIfAny(slot, inst, instIDs) ==
    IF instIDs = <<>> THEN slot ELSE [slot EXCEPT !.ci = Put(@, InstKey(inst), instIDs)]
\* InstancesCacher.saveInstances
saveInstances(slot, inst, instIDs) ==
    [slot EXCEPT !.ci = Put(@, InstKey(inst), instIDs)]

\* Cacher.saveOutputToCache: the output, then its hash
saveOutputToCache(slot, inst, output) ==
    [slot EXCEPT !.out = Put(@, InstKey(inst), output),
                 !.oh = Put(@, InstKey(inst), Hash(output))]

\* (variant: the newest keys are taken instead)
OldKeysNewest(keys, maximumSavedNum) ==
    IF Len(keys) < maximumSavedNum THEN <<>>
    ELSE SubSeq(keys, maximumSavedNum + 1, Len(keys))
\* keys[: -maximumSavedNum] of Cacher.clearOldInstances
OldKeys(keys, maximumSavedNum) ==
    IF Len(keys) < maximumSavedNum THEN <<>>
    ELSE IF maximumSavedNum = 0 THEN <<>>
    ELSE Take(keys, Len(keys) - maximumSavedNum)

\* Cacher.clearOldInstances
clearOldInstances(slot, maximumSavedNum) ==
    LET keys == OldKeys(Keys(slot.ih), maximumSavedNum)
    IN [slot EXCEPT !.ih = DelAll(@, keys), !.oh = DelAll(@, keys),
                    !.out = DelAll(@, keys)]

\* InstancesCacher.clearOldInstances
clearOldInstancesIC(slot, maximumSavedNum) ==
    LET keys == OldKeys(Keys(slot.ih), maximumSavedNum)
    IN [clearOldInstances(slot, maximumSavedNum) EXCEPT !.ci = DelAll(@, keys)]

\* Cacher.updateCache
updateCache(slot, inst, inputHash, output, codeHash, maximumSavedNum) ==
    clearOldInstances(
        saveOutputToCache(saveInputHash(slot, inst, inputHash, codeHash), inst, output),
        maximumSavedNum)

\* InstancesCacher: saveInputHash also saves the instances
updateCacheIC(slot, inst, inputHash, output, codeHash, maximumSavedNum, instIDs) ==
    clearOldInstancesIC(
        saveOutputToCache(
            saveInstances(saveInputHash(slot, inst, inputHash, codeHash), inst, instIDs),
            inst, output),
        maximumSavedNum)

\* Cacher.checkInput, its result (the hash given is also remembered by the
\* object, see the callers)
checkInput(slot, inst, inputHash) ==
    /\ Has(slot.ih, InstKey(inst))
    /\ Get(slot.ih, InstKey(inst)) = inputHash

\* Cacher.cacheExists(args)
cacheExists(slot, inst, inputHash, codeHash) ==
    /\ slot.hash # NoFile
    /\ slot.hash = codeHash
    /\ checkInput(slot, inst, inputHash)
    /\ Has(slot.oh, InstKey(inst))

\* (variant: only the input hash of the instance is cleared)
clearInstanceInputHash(slot, inst) == [slot EXCEPT !.ih = Del(@, InstKey(inst))]
\* Cacher.clearInputHash and Cacher.clearOutputCache for one instance
clearInstance(slot, inst) ==
    [slot EXCEPT !.ih = Del(@, InstKey(inst)),
                 !.out = Del(@, InstKey(inst)),
                 !.oh = IF Has(slot.out, InstKey(inst)) THEN Del(@, InstKey(inst)) ELSE @]


(***************************************************************************)
(* Exceptions.  PipelineHalted is the base class of InvalidCache,          *)
(* SkipIterationError and BlockError; PipelineBreak and UntilStepReached   *)
(* derive from BaseException directly.                                     *)
(***************************************************************************)
NoExc == [kind |-> "none", data |-> <<>>]
Exc(kind, data) == [kind |-> kind, data |-> data]
IsPipelineHalted(kind) ==
    kind \in {"PipelineHalted", "InvalidCache", "SkipIteration", "BlockError"}
REGISTERED_EXCEPTIONS == {"SkipIteration", "UntilStepReached", "PipelineBreak"}

Ret(w, out) == [out |-> out, w |-> w, exc |-> NoExc]
Raise(w, e) == [out |-> <<>>, w |-> w, exc |-> e]

(***************************************************************************)
(* A run.  R holds what is fixed during a run: the versions of the fn's,   *)
(* maximumSavedNum and the behaviour of the fn's (which leaf raises what). *)
(* w is the world: the stores, the attributes of the objects and the log.  *)
(***************************************************************************)
\* the iterative executor is not followed task by task
NoExe == [phase |-> "off"]

NoFault == [kind |-> "none", data |-> <<>>, leaf |-> <<>>]

\* (variant: no fn raises)
FnNeverRaises(R, cn) == NoExc
\* what the fn of a leaf raises when invoked (NoExc: it returns)
FnRaises(R, cn) ==
    IF R.fault.leaf = cn /\ R.fault.kind # "Killed"
    THEN Exc(R.fault.kind, R.fault.data) ELSE NoExc

\* the process is killed in updateCache of the element cn, between
\* saveInputHash and saveOutputToCache
KilledAt(R, cn) == R.fault.kind = "Killed" /\ R.fault.leaf = cn

\* what the fn of a leaf returns: its input followed by the mark of the
\* current version of its source
fn(node, cn, inp, R) == inp \o <<node.tok[R.ver[cn] + 1]>>

\* (variant: a PipelineHalted is let through as well)
BlockRaisesHalted(raised) ==
    IF raised.kind \in REGISTERED_EXCEPTIONS \/ IsPipelineHalted(raised.kind)
    THEN raised
    ELSE Exc("BlockError", <<>>)
\* the except clause of Block._run: what leaves the leaf when fn raised
BlockRaises(raised) ==
    IF raised.kind \in REGISTERED_EXCEPTIONS THEN raised
    ELSE Exc("BlockError", <<>>)

\* updateCache of the element cn under instance inst, with the input hash
\* the object remembers
\* (h is the hash of the input inp of the run; the log tells what the
\* slot answers about that input right after the update)
DoUpdateCache(node, cn, inst, inp, h, out, R, w) ==
    LET code == CodeHash(node, cn, R.ver)
        slot == updateCache(w.cache[cn], inst, w.memo[cn], out, code, R.maxSaved)
    IN IF w.killed THEN w
       ELSE IF KilledAt(R, cn)
       THEN [w EXCEPT !.cache[cn] = saveInputHash(@, inst, w.memo[cn], code),
                      !.killed = TRUE]
       ELSE
       [w EXCEPT
        !.cache[cn] = slot,
        !.updates = Append(@, [e |-> cn, inp |-> inp, out |-> out, inst |-> inst,
                               checkInput |-> checkInput(slot, inst, h),
                               cacheExists |-> cacheExists(slot, inst, h, code),
                               loaded |-> IF Has(slot.out, InstKey(inst))
                                          THEN Get(slot.out, InstKey(inst))
                                          ELSE <<"InvalidCache">>])]

\* the cache hit of an element is logged with the code hashes at that time
LogHit(node, cn, inst, R, w) ==
    [w EXCEPT !.hits = Append(@, [e |-> cn, inst |-> inst,
                                   code |-> CodeHash(node, cn, R.ver),
                                   stored |-> w.cache[cn].hash])]

\* (variant: fn is not invoked and the input is handed on)
BlockRunSilent(node, cn, inst, inp, forceDo, R, w) == Ret(w, inp)
\* Block.run: Cacher.cached around Block._run
BlockRun(node, cn, inst, inp, forceDo, R, w) ==
    LET h == HashArgs(inp)
        slot == w.cache[cn]
        checks == ~forceDo /\ node.cache
        w1 == IF checks THEN [w EXCEPT !.memo[cn] = h] ELSE w
        hit == checks /\ checkInput(slot, inst, h)
    IN IF hit
       THEN \* onSuccessfulCachingLoad, loadCachedOutput
            LET w2 == [LogHit(node, cn, inst, R, w1) EXCEPT !.progress = @ + 1]
            IN IF Has(slot.out, InstKey(inst))
               THEN Ret(w2, Get(slot.out, InstKey(inst)))
               ELSE Raise(w2, Exc("InvalidCache", <<>>))
       ELSE LET w2 == [w1 EXCEPT !.calls = Append(@, [inp |-> inp, inst |-> inst,
                                                       leaf |-> cn,
                                                       \* the steps that have returned
                                                       at |-> Len(w.done)])]
                raised == FnRaises(R, cn)
            IN IF raised.kind # "none"
               THEN LET esc == BlockRaises(raised)
                    IN Raise([w2 EXCEPT !.leafx = Append(@, [leaf |-> cn,
                                  raised |-> raised, escaped |-> esc])], esc)
               ELSE LET ret == fn(node, cn, inp, R)
                        w3 == [w2 EXCEPT !.progress = @ + 1]
                    IN Ret(IF node.cache
                           THEN DoUpdateCache(node, cn, inst, inp, h, ret, R, w3)
                           ELSE w3, ret)

\* IterativePipeline._run normalises its input to a mapping key -> ();
\* the keys are the strings of the input
KeysOf(inp) == inp

\* onSuccessfulCachingLoad: progress is emitted for the leaves below
RECURSIVE CachingLoad(_, _, _, _)
CachingLoad(node, cn, inst, w) ==
    IF node.kind = "leaf" THEN [w EXCEPT !.progress = @ + 1]
    ELSE LET RECURSIVE seq(_, _)
             seq(i, ww) ==
                 IF i > Len(node.steps) THEN ww
                 ELSE seq(i + 1, CachingLoad(node.steps[i],
                              compositeName(cn, node.steps[i].name), inst, ww))
             \* an iterative pipeline repeats it for each instance it knows:
             \* instIDs, else the cached instances, else a single one
             n == IF node.kind # "iter" THEN 1
                  ELSE IF w.iids[cn] # NoStep THEN Len(w.iids[cn])
                  ELSE IF Has(w.cache[cn].ci, InstKey(inst))
                       THEN Len(Get(w.cache[cn].ci, InstKey(inst)))
                  ELSE 1
             RECURSIVE rep(_, _)
             rep(k, ww) == IF k > n THEN ww ELSE rep(k + 1, seq(1, ww))
         IN rep(1, w)

\* the mapping returned by the iterative executor, as a value
RECURSIVE Aggregate(_)
Aggregate(ret) ==
    IF ret = <<>> THEN <<"}">>
    ELSE <<Head(ret).key, ":">> \o Head(ret).val \o <<";">> \o Aggregate(Tail(ret))

RECURSIVE RunNode(_, _, _, _, _, _)
RECURSIVE PipelineRun(_, _, _, _, _, _)
RECURSIVE PipelineRunBody(_, _, _, _, _, _)
RECURSIVE TaskLoopBody(_, _, _, _, _, _)
RECURSIVE StepsLoop(_, _, _, _, _, _, _, _, _)
RECURSIVE StepOutcome(_, _, _, _, _, _, _, _, _, _)
RECURSIVE TaskOutcome(_, _, _, _, _, _, _, _, _, _, _, _)
RECURSIVE IterativeRun(_, _, _, _, _, _)
RECURSIVE TaskLoop(_, _, _, _, _, _, _, _, _, _, _)

\* the log of an UntilStepReached(data) that reached the pipeline e (a
\* sequential one, the pipeline of one key of an iterative one, or an
\* iterative one): what left the pipeline, and the value returned if none
SignalEntry(kind, root, e, data, left, ret) ==
    [kind |-> kind, root |-> root, e |-> e, data |-> data, ret |-> IF left = NoExc THEN ret ELSE <<>>,
     left |-> left]

\* (variant: the whole composite name is compared)
UntilMatchesWholeName(scn, until) == Truthy(until) /\ scn = until
\* `if untilStep and step.compositeName.endswith(untilStep)`
UntilMatches(scn, until) == Truthy(until) /\ EndsWith(scn, until)

\* (variant: the pipeline is updated at whichever step untilStep names)
UpdatesAtUntilAnyStep(node, cn, scn) == TRUE
\* `if step.compositeName == self.lastStep.compositeName: updateCache(out)`
UpdatesAtUntil(node, cn, scn) == scn = lastChild(node, cn)

\* (variant: the root raises the signal again as the others do)
OnUntilStepReachedRaise(root, r) == Raise(r.w, r.exc)
\* `except UntilStepReached as err`: the root returns err.data, the others
\* raise it again
OnUntilStepReached(root, r) ==
    IF root THEN Ret(r.w, r.exc.data) ELSE Raise(r.w, r.exc)

\* (variant: the break is raised again)
OnPipelineBreakRaise(r, out) == Raise(r.w, r.exc)
\* `except PipelineBreak: return out`
OnPipelineBreak(r, out) == Ret(r.w, out)

\* Pipeline.useCache and the cache gate of Pipeline._run: untilStep, and
\* then _forceRunSteps, name a leaf below this pipeline
UntilHere(node, cn, c) == Truthy(c.until) /\ AnyLeafEndsWith(node, cn, c.until)
\* (variant: any _forceRunSteps closes the gate)
ForceHereNonEmpty(node, cn, c) == c.frs # {}
ForceHere(node, cn, c) ==
    c.frs # {} /\ \E y \in c.frs : AnyLeafEndsWith(node, cn, y)

\* the log of an invocation of Pipeline._run: its arguments, what
\* checkInput(inp) answers, whether the cached output was returned without
\* walking the children, whether the run was refused
GateEntry(node, cn, c, w, skipped, refused) ==
    [e |-> cn,
     checkInput |-> node.cache /\ checkInput(w.cache[cn], c.inst, Hash(c.inp)),
     forceDo |-> c.forceDo, until |-> c.until, frs |-> c.frs,
     skipped |-> skipped, refused |-> refused]

\* the events of the pipelines in a run: _run is entered, finalize() is
\* called, _run is left (how: "return", or the kind of what it raises).  The
\* pipeline built for a key of an iterative pipeline has the composite
\* name of the iterative pipeline and the kind "child".
Event(ev, e, kind, how) == [kind |-> kind, e |-> e, ev |-> ev, how |-> how]
PipeKind(node) == IF node.kind = "iter" THEN "child" ELSE "pipe"
Enters(w, e, kind) == [w EXCEPT !.ev = Append(@, Event("enter", e, kind, ""))]
\* self.finalize() of a pipeline
finalize(w, e, kind) == [w EXCEPT !.ev = Append(@, Event("finalize", e, kind, ""))]
\* (variant: nothing is finalized when a step raised)
\* `finally: if not noException: self.finalize()`
FinalizeOnException(r, e, kind) == [r EXCEPT !.w = finalize(@, e, kind)]
Leaves(res, e, kind) ==
    [res EXCEPT !.w.ev = Append(@, Event("exit", e, kind,
                             IF res.exc = NoExc THEN "return" ELSE res.exc.kind))]

\* Pipeline._run of the pipeline node (composite name cn; root: it has no
\* parent) with the arguments c
PipelineRun(node, cn, root, c, R, w) ==
    Leaves(PipelineRunBody(node, cn, root, c, R, Enters(w, cn, PipeKind(node))),
           cn, PipeKind(node))

\* the body of Pipeline._run
PipelineRunBody(node, cn, root, c, R, w) ==
    IF c.until # NoStep /\ root /\ c.fromStep = NoStep
       /\ ~AnyLeafEndsWith(node, cn, c.until)
    THEN Raise([w EXCEPT !.gates = Append(@, GateEntry(node, cn, c, w, FALSE, TRUE))],
               Exc("PipelineHalted", <<>>))
    ELSE
    LET h == Hash(c.inp)
        \* useCache reaches checkInput, which remembers the hash
        checks == ~c.forceDo /\ ~UntilHere(node, cn, c) /\ ~ForceHere(node, cn, c)
                  /\ node.cache
        w1 == IF checks THEN [w EXCEPT !.memo[cn] = h] ELSE w
        hit == checks /\ checkInput(w.cache[cn], c.inst, h)
        w2 == [w1 EXCEPT !.gates = Append(@, GateEntry(node, cn, c, w, hit, FALSE))]
    IN IF hit
       THEN LET w3 == CachingLoad(node, cn, c.inst, LogHit(node, cn, c.inst, R, w2))
            IN IF Has(w.cache[cn].out, InstKey(c.inst))
               THEN Ret(w3, Get(w.cache[cn].out, InstKey(c.inst)))
               ELSE Raise(w3, Exc("InvalidCache", <<>>))
       ELSE StepsLoop(node, cn, root, c, R, 1, c.forceDo, c.inp, w2)

\* the loop of Pipeline._run from step i on, with the accumulator out
StepsLoop(node, cn, root, c, R, i, do, out, w) ==
    IF i > Len(node.steps)
    THEN Ret(finalize(IF node.cache
                      THEN DoUpdateCache(node, cn, c.inst, c.inp, Hash(c.inp), out, R, w)
                      ELSE w, cn, PipeKind(node)), out)
    ELSE
    LET step == node.steps[i]
        scn == compositeName(cn, step.name)
        seeking == ~do /\ c.fromStep # NoStep
    IN IF seeking /\ IsPipeline(step) /\ c.fromStep # <<"init">>
          /\ ~isParentOf(scn, c.fromStep)
       THEN StepsLoop(node, cn, root, c, R, i + 1, do, out, w)
       ELSE IF seeking /\ scn = c.fromStep
       THEN \* os.path.exists(step.cachedOutputPath) is false for a shelve
            \* file, which has extensions: the output is not loaded
            StepsLoop(node, cn, root, c, R, i + 1, TRUE, out, w)
       ELSE
       StepOutcome(node, cn, root, c, R, i, do \/ seeking, out, scn,
           IF IsPipeline(step)
           THEN RunNode(step, scn, FALSE,
                    [c EXCEPT !.inp = out,
                              !.forceDo = c.forceDo \/ c.fromStep # NoStep],
                    R, w)
           ELSE BlockRun(step, scn, c.inst, out,
                    c.forceDo \/ (\E x \in c.frs : EndsWith(scn, x)), R, w))

\* the step scn of the loop returned or raised r: the except clauses of
\* Pipeline._run, then the test of untilStep, then the next step
StepOutcome(node, cn, root, c, R, i, do, out, scn, r0) ==
    LET k == r0.exc.kind
        r == IF k = "none" THEN r0 ELSE FinalizeOnException(r0, cn, PipeKind(node))
    IN IF k = "UntilStepReached"
       THEN [OnUntilStepReached(root, r) EXCEPT !.w.props = Append(@,
                SignalEntry(IF node.kind = "iter" THEN "child" ELSE "pipe",
                            root, cn, r.exc.data, OnUntilStepReached(root, r).exc,
                            OnUntilStepReached(root, r).out))]
       ELSE IF k = "PipelineBreak"
       THEN [OnPipelineBreak(r, out) EXCEPT !.w.breaks = Append(@,
                [i |-> i, e |-> cn, inp |-> c.inp, at |-> Len(r.w.done),
                 ret |-> OnPipelineBreak(r, out).out, left |-> OnPipelineBreak(r, out).exc,
                 acc |-> out])]
       ELSE IF IsPipelineHalted(k) THEN Raise(r.w, r.exc)
       ELSE IF k # "none" THEN Raise(r.w, Exc("PipelineHalted", <<>>))
       ELSE LET wd == [r.w EXCEPT !.done = Append(@, [e |-> scn, out |-> r.out])]
            IN IF UntilMatches(scn, c.until)
               THEN LET w1 == IF UpdatesAtUntil(node, cn, scn)
                              THEN DoUpdateCache(node, cn, c.inst, c.inp, Hash(c.inp),
                                                 r.out, R, wd)
                              ELSE wd
                    IN IF root THEN Ret(w1, r.out)
                       ELSE Raise(w1, Exc("UntilStepReached", r.out))
               ELSE StepsLoop(node, cn, root, c, R, i + 1, do, r.out, wd)

\* IterativePipeline._run, sequential: one task per key
IterativeRun(node, cn, root, c, R, w) ==
    Leaves(TaskLoopBody(node, cn, root, c, R, Enters(w, cn, "iter")), cn, "iter")

\* the body of IterativePipeline._run
TaskLoopBody(node, cn, root, c, R, w) ==
    LET keys == KeysOf(c.inp)
        w1 == [w EXCEPT !.iids[cn] = keys,
                        !.cache[cn] = IF w.killed THEN @
                                      ELSE saveInstances(@, c.inst, keys)]
    IN TaskLoop(node, cn, root, c, R, keys, 1, 0, <<>>, FALSE, w1)

\* the loop over the keys from the k-th on; failed counts the skipped tasks,
\* ret is the mapping so far, reached is stepReached
TaskLoop(node, cn, root, c, R, keys, k, failed, ret, reached, w) ==
    IF k > Len(keys)
    THEN IF failed = Len(keys) THEN Raise(w, Exc("SkipIteration", <<>>))
         ELSE LET agg == <<"{">> \o Aggregate(ret)
                  left == IF reached /\ ~root THEN Exc("UntilStepReached", agg)
                          ELSE NoExc
                  \* the signals the tasks gave, and what leaves the pipeline
                  sigs == SelectSeq(ret, LAMBDA it : it.sig)
                  w1 == [w EXCEPT !.props = @ \o
                            [j \in 1..Len(sigs) |->
                                SignalEntry("iter", root, cn, sigs[j].val, left, agg)]]
              IN IF reached
                 THEN IF left = NoExc THEN Ret(w1, agg) ELSE Raise(w1, left)
                 ELSE Ret(finalize(w1, cn, "iter"), agg)
    ELSE
    LET key == keys[k]
        tinst == IF c.inst # NoInst /\ ~(\E j \in 1..Len(keys) : c.inst = <<keys[j]>>)
                 THEN JoinInst(c.inst, key) ELSE <<key>>
    IN \* _singleTask: a new pipeline object over the same steps and cache
       \* directory; it is not given _forceRunSteps
       TaskOutcome(node, cn, root, c, R, keys, k, failed, ret, reached, key,
           PipelineRun(node, cn, root,
               [c EXCEPT !.inst = tinst, !.inp = <<>>, !.frs = {}], R,
               [w EXCEPT !.memo[cn] = NoneHash]))

\* the task of the key returned or raised r
TaskOutcome(node, cn, root, c, R, keys, k, failed, ret, reached, key, r) ==
    LET kind == r.exc.kind
    IN IF kind = "SkipIteration"
       THEN TaskLoop(node, cn, root, c, R, keys, k + 1, failed + 1, ret, reached, r.w)
       ELSE IF kind = "UntilStepReached"
       THEN TaskLoop(node, cn, root, c, R, keys, k + 1, failed,
                Append(ret, [key |-> key, val |-> r.exc.data, sig |-> TRUE]), TRUE, r.w)
       ELSE IF kind # "none" THEN Raise(r.w, r.exc)
       ELSE \* the task returns the pair (output, 1)
            TaskLoop(node, cn, root, c, R, keys, k + 1, failed,
                Append(ret, [key |-> key, val |-> <<"(">> \o r.out \o <<",1)">>,
                             sig |-> FALSE]),
                reached, r.w)

RunNode(node, cn, root, c, R, w) ==
    IF node.kind = "leaf" THEN BlockRun(node, cn, c.inst, c.inp, c.forceDo, R, w)
    ELSE IF node.kind = "iter" THEN IterativeRun(node, cn, root, c, R, w)
    ELSE PipelineRun(node, cn, root, c, R, w)


(***************************************************************************)
(* The trees of the model.  P[A,B,C]; P[A,Q[B,D],C], nested; P[QB[A],B,C], *)
(* where the name of a pipeline ends like the name of a leaf;              *)
(* P[A,I[B],C] with an iterative pipeline I; and a root iterative I[A,B].  *)
(***************************************************************************)
LeafA == Block(<<"A">>, <<"a", "a2">>)
LeafB == Block(<<"B">>, <<"b", "b2">>)
LeafC == Block(<<"C">>, <<"c", "c2">>)
LeafD == Block(<<"D">>, <<"d", "d2">>)
TreeFlat == Pipeline(<<"P">>, <<LeafA, LeafB, LeafC>>)
TreeNested == Pipeline(<<"P">>, <<LeafA, Pipeline(<<"Q">>, <<LeafB, LeafD>>), LeafC>>)
TreeSuffix == Pipeline(<<"P">>, <<Pipeline(<<"Q", "B">>, <<LeafA>>), LeafB, LeafC>>)
TreeIter == Pipeline(<<"P">>, <<LeafA, IterativePipeline(<<"I">>, <<LeafB>>), LeafC>>)
TreeIterRoot == IterativePipeline(<<"I">>, <<LeafA, LeafB>>)
Trees == {TreeFlat, TreeNested, TreeSuffix}
IterTrees == {TreeIter, TreeIterRoot}

\* the arguments of the runs of the model
Insts == {NoInst, <<"i">>}
Inputs == {<<>>, <<"x">>}
UntilSteps == {NoStep, <<>>, <<"B">>, <<"C">>, <<"D">>}
\* forceDo with _forceRunSteps: a plain run, a forced run, runSteps(["B"])
Modes == {<<FALSE, {}>>, <<TRUE, {}>>, <<FALSE, {<<"B">>}>>}
\* the leaves whose source is edited
Edited == {<<"B">>}
FaultKinds == {"SkipIteration", "UntilStepReached", "PipelineBreak",
               "PipelineHalted", "InvalidCache", "Other"}

NewWorld(c, m, i) ==
    [cache |-> c, memo |-> m, iids |-> i, killed |-> FALSE, updates |-> <<>>,
     hits |-> <<>>, progress |-> 0, calls |-> <<>>, done |-> <<>>, leafx |-> <<>>,
     ev |-> <<>>, gates |-> <<>>, props |-> <<>>, breaks |-> <<>>]

Args(inst, inp, forceDo, until, frs) ==
    [inp |-> inp, inst |-> inst, forceDo |-> forceDo, until |-> until,
     frs |-> frs, fromStep |-> NoStep]

\* the record of a run of the root: its arguments, its outcome, its log,
\* the stores and the sources before it
NoRun ==
    [ver |-> <<>>, out |-> <<>>, exc |-> NoExc,
     fault |-> NoFault, ran |-> FALSE, args |-> Args(NoInst, <<>>, FALSE, NoStep, {}),
     log |-> NewWorld(<<>>, <<>>, <<>>), pre |-> <<>>, full |-> <<>>,
     elem |-> <<>>, born |-> <<>>]

\* the outcome r of a run of the root becomes the state; full is kept for
\* the comparison with a run without untilStep, and before is the run that
\* is remembered as the one before this
Commit(c, fault, r, full, before) ==
    /\ nruns < MaxRuns
    /\ cache' = r.w.cache
    \* a killed process leaves the stores only
    /\ memo' = IF r.w.killed THEN [e \in DOMAIN memo |-> NoneHash] ELSE r.w.memo
    /\ iids' = IF r.w.killed THEN [e \in DOMAIN iids |-> NoStep] ELSE r.w.iids
    /\ last' = [ver |-> fnVer, out |-> IF r.w.killed THEN <<>> ELSE r.out,
                exc |-> IF r.w.killed THEN Exc("Killed", <<>>) ELSE r.exc, fault |-> fault,
                ran |-> TRUE, args |-> c,
                log |-> [r.w EXCEPT !.cache = <<>>, !.memo = <<>>, !.iids = <<>>],
                pre |-> cache, full |-> full, elem |-> tree.name, born |-> <<>>]
    /\ prev' = before
    /\ nruns' = nruns + 1
    /\ UNCHANGED <<tree, fnVer, maxSaved, exe>>

\* the root is run with the arguments c while the fn's behave as fault says
RootRun(c, fault) ==
    Commit(c, fault,
        RunNode(tree, tree.name, TRUE, c,
                [maxSaved |-> maxSaved, ver |-> fnVer, fault |-> fault],
                NewWorld(cache, memo, iids)),
        \* the stores a run without untilStep leaves from the same state
        IF Truthy(c.until) /\ fault = NoFault
        THEN RunNode(tree, tree.name, TRUE, [c EXCEPT !.until = NoStep],
                     [maxSaved |-> maxSaved, ver |-> fnVer, fault |-> fault],
                     NewWorld(cache, memo, iids)).w.cache
        ELSE <<>>,
        \* runs that end normally are compared with the run before them
        IF fault = NoFault THEN last ELSE NoRun)

\* Pipeline._run(inp, untilStep, forceDo, _forceRunSteps) on the root
Run ==
    \E inst \in Insts, inp \in Inputs, mode \in Modes, until \in UntilSteps :
        RootRun(Args(inst, inp, mode[1], until, mode[2]), NoFault)

\* the same with one leaf whose fn raises
RunRaising ==
    \E inp \in {<<"x">>}, until \in {NoStep, <<"B">>},
       leaf \in LeafNames(tree), kind \in FaultKinds :
        RootRun(Args(NoInst, inp, FALSE, until, {}),
                [kind |-> kind, data |-> IF kind = "UntilStepReached" THEN <<"u">> ELSE <<>>,
                 leaf |-> leaf])

\* the same while the process is killed in the updateCache of one element
RunKilled ==
    \E inp \in Inputs, e \in ElemNames(tree) :
        RootRun(Args(NoInst, inp, FALSE, NoStep, {}),
                [kind |-> "Killed", data |-> <<>>, leaf |-> e])

\* the source of the fn of a leaf is edited
ChangeFn ==
    \E leaf \in LeafNames(tree) :
        /\ \E name \in Edited : EndsWith(leaf, <<DOT>> \o name)
        /\ 0 < nruns /\ nruns < MaxRuns
        /\ fnVer[leaf] = 0
        /\ fnVer' = [fnVer EXCEPT ![leaf] = 1]
        /\ UNCHANGED <<tree, cache, memo, iids, maxSaved, last, prev, nruns, exe>>

\* the objects are built anew (another process) over the same directories
Construct ==
    /\ nruns < MaxRuns
    /\ \E e \in DOMAIN memo : memo[e] # NoneHash \/ iids[e] # NoStep
    /\ memo' = [e \in DOMAIN memo |-> NoneHash]
    /\ iids' = [e \in DOMAIN iids |-> NoStep]
    /\ UNCHANGED <<tree, cache, fnVer, maxSaved, last, prev, nruns, exe>>

InitOf(trees) ==
    /\ tree \in trees
    /\ cache = [e \in ElemNames(tree) |-> EmptySlot]
    /\ memo = [e \in ElemNames(tree) |-> NoneHash]
    /\ iids = [e \in ElemNames(tree) |-> NoStep]
    /\ fnVer = [l \in LeafNames(tree) |-> 0]
    /\ maxSaved \in 1..MaxSavedLimit
    /\ last = NoRun
    /\ prev = NoRun
    /\ nruns = 0
    /\ exe = NoExe

Init == InitOf(Trees)
InitIter == InitOf(IterTrees)
InitAll == InitOf(Trees \cup IterTrees)

Next == Run \/ ChangeFn \/ Construct

Spec == Init /\ [][Next]_vars

SpecIter == InitIter /\ [][Next]_vars

NextKilled == Run \/ RunKilled \/ Construct

SpecKilled == Init /\ [][NextKilled]_vars


(***************************************************************************)
(* Properties.                                                             *)
(***************************************************************************)
\* the leaves whose fn was invoked in the last run, in order
Invoked == [i \in 1..Len(last.log.calls) |-> last.log.calls[i].leaf]

\* a run without untilStep that returned
Completed(run) == run.ran /\ run.exc = NoExc /\ run.args.until = NoStep
\* a plain run: not forced, no untilStep, no forced steps
Plain(run) ==
    run.ran /\ ~run.args.forceDo /\ run.args.until = NoStep /\ run.args.frs = {}
SameCall(r1, r2) == r1.args.inst = r2.args.inst /\ r1.args.inp = r2.args.inp

\* the last run repeats, plainly, the completed run before it, and no
\* source was edited in between
WarmRerun ==
    /\ Completed(prev) /\ Plain(last) /\ SameCall(prev, last)
    /\ last.ver = prev.ver

\* C1: a warm re-run (the run before completed on the same input and
\* instance, nothing was edited, forceDo is false) returns the same output,
\* invokes the fn of no leaf and emits one progress event per leaf.
C1_WarmRerun ==
    WarmRerun =>
        /\ last.exc = NoExc
        /\ last.out = prev.out
        /\ Invoked = <<>>
        /\ last.log.progress = Cardinality(LeafNames(tree))

\* the leaves from the edited one on, in depth-first order
RECURSIVE FromEdited(_, _)
FromEdited(names, ver) ==
    IF names = <<>> THEN <<>>
    ELSE IF ver[Head(names)] = 1 THEN names
    ELSE FromEdited(Tail(names), ver)

\* C2: an element's slot is used as a hit only when the stored code hash
\* equals the current code hash of the element; and when the fn of one leaf
\* was edited after a completed plain run, the same plain run again
\* invokes the fn of that leaf and of the leaves after it, and of no leaf
\* before it (for P[A,B,C] and B: B and C, A comes from its cache).
C2_CodeHashInvalidation ==
    /\ last.ran =>
        \A i \in 1..Len(last.log.hits) :
            last.log.hits[i].stored = last.log.hits[i].code
    /\ (/\ Completed(prev) /\ Plain(prev) /\ Plain(last) /\ SameCall(prev, last)
        /\ \A l \in LeafNames(tree) : prev.ver[l] = 0
        /\ \E l \in LeafNames(tree) : last.ver[l] = 1)
       => Invoked = FromEdited(collapsedNames(tree, tree.name), last.ver)

\* C3: right after updateCache stored the output y of a run of an element
\* on the input x, for the instance of the run checkInput(x) is true,
\* cacheExists(x) is true and the output loaded from the cache is y.
C3_UpdateThenHit ==
    last.ran =>
        \A i \in 1..Len(last.log.updates) :
            LET u == last.log.updates[i]
            IN u.checkInput /\ u.cacheExists /\ u.loaded = u.out


\* the steps below a node in the order in which they complete: a pipeline
\* after its steps
RECURSIVE PostOrder(_, _)
PostOrder(node, cn) ==
    Concat([i \in 1..Len(node.steps) |->
        LET ch == node.steps[i]
            ccn == compositeName(cn, ch.name)
        IN (IF IsPipeline(ch) THEN PostOrder(ch, ccn) ELSE <<>>) \o <<ccn>>])

\* the first step to complete whose composite name ends with s
UntilTarget(s) ==
    LET po == PostOrder(tree, tree.name)
    IN po[CHOOSE i \in 1..Len(po) :
              EndsWith(po[i], s) /\ \A j \in 1..(i - 1) : ~EndsWith(po[j], s)]

\* the position of a leaf in depth-first order, and of the last leaf of a step
LeafIndex(l) ==
    CHOOSE i \in 1..Len(collapsedNames(tree, tree.name)) :
        collapsedNames(tree, tree.name)[i] = l
LastLeafIndex(e) ==
    CHOOSE i \in 1..Len(collapsedNames(tree, tree.name)) :
        /\ isParentOf(e, collapsedNames(tree, tree.name)[i])
        /\ \A j \in (i + 1)..Len(collapsedNames(tree, tree.name)) :
               ~isParentOf(e, collapsedNames(tree, tree.name)[j])

\* the output the step e produced in the last run
OutputOf(e) ==
    LET d == last.log.done
        i == CHOOSE i \in 1..Len(d) : d[i].e = e /\ \A j \in (i + 1)..Len(d) : d[j].e # e
    IN d[i].out

\* the last run was a run of the root with an untilStep that some leaf matches
UntilRun ==
    /\ last.ran /\ last.fault = NoFault
    /\ Truthy(last.args.until)
    /\ AnyLeafEndsWith(tree, tree.name, last.args.until)

RootKey == InstKey(last.args.inst)
\* the last run stopped at a step that is not the last leaf of the root
UntilNotLast ==
    UntilRun /\ UntilTarget(last.args.until) # lastChild(tree, tree.name)

\* C6 as claimed: after a root run with untilStep = s, s not the last leaf
\* of the root (P[A,B,C], s = B), the cached output of the root for the
\* instance of the run is the value the run returned.
C6_CachedOutputIsReturned ==
    UntilNotLast =>
        /\ Has(cache[tree.name].out, RootKey)
        /\ Get(cache[tree.name].out, RootKey) = last.out

\* C6 amended: such a run leaves the stores of the root as they were before
\* it: the value returned is not written as the cached output of the root.
C6_RootStoresUntouched ==
    UntilNotLast => cache[tree.name] = last.pre[tree.name]

\* P[A,B,C] was run until B after a full run: the root holds the output of
\* the full run, the run returned the output of B
C6_Witness ==
    /\ UntilNotLast /\ tree = TreeFlat /\ last.args.until = <<"B">>
    /\ Has(cache[tree.name].out, RootKey)
    /\ Get(cache[tree.name].out, RootKey) = <<"a", "b", "c">>
    /\ last.out = <<"a", "b">>

\* what the stores hold for an element: input hash, output hash, output of
\* each instance, and the code hash
Contents(slot) == [hash |-> slot.hash, ih |-> slot.ih, oh |-> slot.oh, out |-> slot.out]

\* the elements up to and including the step reached: the steps that
\* complete before it, itself, and the pipelines whose last leaf it is
UpTo(t) ==
    LET po == PostOrder(tree, tree.name)
        i == CHOOSE i \in 1..Len(po) : po[i] = t
    IN {po[j] : j \in 1..i} \cup
       {e \in ElemNames(tree) \ {tree.name} :
            isParentOf(e, t) /\ LastLeafIndex(e) = LastLeafIndex(t)}

\* C7: from the same stores, a run with untilStep = s and a run without
\* untilStep leave the same contents (input hash, output hash, output, code
\* hash) for every element up to and including the step reached, the
\* pipelines whose last leaf is that step included.
C7_UntilCacheEquivalence ==
    UntilRun =>
        \A e \in UpTo(UntilTarget(last.args.until)) :
            Contents(cache[e]) = Contents(last.full[e])

\* s is the suffix of the composite name of a leaf below the element e
MatchesBelow(e, s) ==
    \E l \in LeafNames(tree) : isParentOf(e, l) /\ l # e /\ EndsWith(l, s)

\* C8 as claimed: an invocation of Pipeline._run returns the cached output
\* without walking the children iff forceDo is false, checkInput(inp) is
\* true, untilStep is null and forceRunSteps is empty.
C8_GateAsClaimed ==
    last.ran =>
        \A i \in 1..Len(last.log.gates) :
            LET g == last.log.gates[i]
            IN g.skipped <=>
                   (~g.forceDo /\ g.checkInput /\ g.until = NoStep /\ g.frs = {})

\* C8 amended: it does so iff forceDo is false, checkInput(inp) is true,
\* untilStep is null, empty or the suffix of no leaf below this pipeline,
\* and no forceRunSteps entry is the suffix of a leaf below this pipeline;
\* except that a root given an untilStep that no leaf below it ends with
\* is refused (PipelineHalted) and returns nothing.
C8_Gate ==
    last.ran =>
        \A i \in 1..Len(last.log.gates) :
            LET g == last.log.gates[i]
            IN /\ g.refused <=>
                   (/\ g.e = tree.name /\ g.until # NoStep /\ g.until # <<>>
                    /\ ~MatchesBelow(g.e, g.until))
               /\ g.skipped <=>
                   (/\ ~g.forceDo /\ g.checkInput /\ ~g.refused
                    /\ \/ g.until = NoStep \/ g.until = <<>>
                       \/ ~MatchesBelow(g.e, g.until)
                    /\ \A y \in g.frs : ~MatchesBelow(g.e, y))

\* a nested pipeline returned its cached output in a run with an untilStep
\* that names a leaf outside it
C8_Witness ==
    /\ last.ran
    /\ \E i \in 1..Len(last.log.gates) :
           LET g == last.log.gates[i]
           IN g.skipped /\ g.until = <<"C">> /\ g.e = <<"P", ".", "Q">>


(***************************************************************************)
(* Runs in which the fn of one leaf raises.                                *)
(***************************************************************************)
NextRaising == RunRaising \/ Construct

SpecRaising == InitAll /\ [][NextRaising]_vars

\* C9: an exception raised by the fn of a leaf leaves Block.run as it is
\* (same kind, same payload) when it is SkipIteration, UntilStepReached or
\* PipelineBreak, and as a BlockError, which is a PipelineHalted, otherwise;
\* nothing else leaves a leaf because of its fn.
C9_LeafErrorMapping ==
    last.ran =>
        \A i \in 1..Len(last.log.leafx) :
            LET x == last.log.leafx[i]
            IN /\ x.raised.kind \in {"SkipIteration", "UntilStepReached", "PipelineBreak"}
                    => x.escaped = x.raised
               /\ x.raised.kind \notin {"SkipIteration", "UntilStepReached", "PipelineBreak"}
                    => x.escaped.kind = "BlockError" /\ IsPipelineHalted(x.escaped.kind)
               /\ x.escaped.kind \in {"SkipIteration", "UntilStepReached",
                                      "PipelineBreak", "BlockError"}

\* in the second run of a pipeline a fn raised PipelineHalted itself, and
\* a BlockError left the leaf
C9_Witness ==
    /\ last.ran /\ nruns = 2
    /\ \E i \in 1..Len(last.log.leafx) :
           /\ last.log.leafx[i].raised.kind = "PipelineHalted"
           /\ last.log.leafx[i].escaped.kind = "BlockError"

CacherObj == <<"Cacher">>
InstancesObj == <<"InstancesCacher">>
CacherInsts == {NoInst, <<"i">>, <<"j">>}

InitCacher ==
    /\ tree = LeafA
    /\ cache = [o \in {CacherObj, InstancesObj} |-> EmptySlot]
    /\ memo = [o \in {CacherObj, InstancesObj} |-> NoneHash]
    /\ iids = [o \in {CacherObj, InstancesObj} |-> <<"k">>]
    /\ fnVer = [l \in LeafNames(tree) |-> 0]
    /\ maxSaved \in 1..MaxSavedLimit
    /\ last = NoRun
    /\ prev = NoRun
    /\ nruns = 0
    /\ exe = NoExe

\* Cacher.computeInputHash(args)
ComputeInputHash ==
    \E o \in {CacherObj, InstancesObj}, inp \in Inputs :
        /\ memo[o] # Hash(inp)
        /\ memo' = [memo EXCEPT ![o] = Hash(inp)]
        /\ UNCHANGED <<tree, cache, iids, fnVer, maxSaved, last, prev, nruns, exe>>

\* the time of the first writing of each instance that is in the stores
\* after an update of the object o for the key k
Born(o, k, post) ==
    LET old == IF last.ran /\ last.born # <<>> THEN last.born
               ELSE [x \in {CacherObj, InstancesObj} |-> <<>>]
        mine == IF Has(old[o], k) THEN old[o] ELSE Put(old[o], k, <<nruns + 1>>)
    IN [old EXCEPT ![o] = SelectSeq(mine, LAMBDA b : Has(post.ih, b.k))]

\* updateCache(output) on one of the objects, whose instID is inst
UpdateCache ==
    \E o \in {CacherObj, InstancesObj}, inst \in CacherInsts, out \in {<<"y">>} :
        LET code == Hash(o)
            post == IF o = InstancesObj
                    THEN updateCacheIC(cache[o], inst, memo[o], out, code, maxSaved,
                                       iids[o])
                    ELSE updateCache(cache[o], inst, memo[o], out, code, maxSaved)
        IN /\ nruns < MaxOps
           /\ cache' = [cache EXCEPT ![o] = post]
           /\ last' = [NoRun EXCEPT !.ran = TRUE, !.args.inst = inst, !.out = out,
                                    !.pre = cache, !.elem = o,
                                    !.born = Born(o, InstKey(inst), post)]
           /\ prev' = [NoRun EXCEPT !.born = last.born]
           /\ nruns' = nruns + 1
           /\ UNCHANGED <<tree, memo, iids, fnVer, maxSaved, exe>>

NextCacher == ComputeInputHash \/ UpdateCache

SpecCacher == InitCacher /\ [][NextCacher]_vars

\* the keys of a store, as a set
KeySet(store) == SeqRange(Keys(store))
\* the stores of an object: cached_instances counts for an InstancesCacher
StoresOf(o, slot) ==
    IF o = InstancesObj THEN {slot.ih, slot.oh, slot.out, slot.ci}
    ELSE {slot.ih, slot.oh, slot.out}
\* the instance written first among those the object held before the last
\* update
Oldest(o) ==
    LET b == prev.born[o]
    IN CHOOSE k \in SeqRange(Keys(b)) :
           \A x \in SeqRange(Keys(b)) : Get(b, x)[1] >= Get(b, k)[1]

\* C4: after every updateCache each store of the object holds at most
\* maxSaved instances; and when the update wrote a new instance while
\* maxSaved were held, exactly the instance written first is removed, from
\* input_hash, output_hash and output alike (and from cached_instances for
\* an InstancesCacher), and the new one is kept.
C4_EvictionBound ==
    last.ran =>
        LET o == last.elem
            k == InstKey(last.args.inst)
            pre == last.pre[o]
            post == cache[o]
        IN /\ \A st \in StoresOf(o, post) : Len(st) <= maxSaved
           /\ (Len(pre.ih) = maxSaved /\ ~Has(pre.ih, k)) =>
                 \A st \in {<<pre.ih, post.ih>>, <<pre.oh, post.oh>>,
                            <<pre.out, post.out>>} \cup
                           (IF o = InstancesObj THEN {<<pre.ci, post.ci>>} ELSE {}) :
                     KeySet(st[2]) = (KeySet(st[1]) \cup {k}) \ {Oldest(o)}

\* an InstancesCacher evicted an instance at the last update
C4_Witness ==
    /\ last.ran /\ last.elem = InstancesObj
    /\ Len(last.pre[InstancesObj].ih) = maxSaved
    /\ ~Has(last.pre[InstancesObj].ih, InstKey(last.args.inst))
    /\ Len(cache[InstancesObj].ci) = maxSaved
    /\ maxSaved = 2


(***************************************************************************)
(* PipelineBreak.                                                          *)
(***************************************************************************)
\* the element of the tree with the composite name e
NodeOf(e) ==
    IF e = tree.name THEN tree
    ELSE (CHOOSE x \in SeqRange(collapsedChildrenAndParents(tree, tree.name)) :
              x.cn = e).node

\* the composite name of the i-th step of the pipeline e
StepName(e, i) == compositeName(e, NodeOf(e).steps[i].name)

\* the output of the step e that was the latest when the log of the
\* completed steps had n entries
OutputBefore(e, n) ==
    LET d == last.log.done
        i == CHOOSE i \in 1..n : d[i].e = e /\ \A j \in (i + 1)..n : d[j].e # e
    IN d[i].out

\* the step s was entered in the last run: its fn was invoked, or its cache
\* was hit, or (a pipeline) its gate was passed
Entered(s) ==
    \/ \E i \in 1..Len(last.log.calls) : last.log.calls[i].leaf = s
    \/ \E i \in 1..Len(last.log.hits) : last.log.hits[i].e = s
    \/ \E i \in 1..Len(last.log.gates) : last.log.gates[i].e = s

\* C11: when child i of a pipeline raises PipelineBreak, the pipeline
\* returns normally the accumulator it had before child i (the output of
\* child i-1, or its input for the first child); the parent sees a normal
\* return of that value and goes on with its next child; the break never
\* leaves the outermost run.
C11_PipelineBreak ==
    last.ran =>
        /\ last.exc.kind # "PipelineBreak"
        /\ \A x \in 1..Len(last.log.breaks) :
               LET b == last.log.breaks[x]
               IN /\ b.left = NoExc
                  /\ b.ret = b.acc
                  /\ b.acc = IF b.i = 1 THEN b.inp
                             ELSE OutputBefore(StepName(b.e, b.i - 1), b.at)
                  /\ (b.e # tree.name /\ NodeOf(b.e).kind = "pipe") =>
                        /\ Len(last.log.done) > b.at
                        /\ last.log.done[b.at + 1] = [e |-> b.e, out |-> b.acc]
                        /\ \A p \in ElemNames(tree) :
                             \A j \in 1..(Len(NodeOf(p).steps) - 1) :
                               (StepName(p, j) = b.e /\ ~UntilMatches(b.e, last.args.until))
                                  => Entered(StepName(p, j + 1))

\* in P[A,Q[B,D],C] the fn of D raised PipelineBreak: Q returned the output
\* of B, and P ran C on it
C11_Witness ==
    /\ last.ran /\ tree = TreeNested /\ last.exc = NoExc
    /\ \E x \in 1..Len(last.log.breaks) :
           /\ last.log.breaks[x].e = <<"P", ".", "Q">>
           /\ last.log.breaks[x].i = 2
           /\ last.log.breaks[x].ret = <<"x", "a", "b">>
    /\ \E i \in 1..Len(last.log.calls) :
           /\ last.log.calls[i].leaf = <<"P", ".", "C">>
           /\ last.log.calls[i].inp = <<"x", "a", "b">>
    /\ last.out = <<"x", "a", "b", "c">>


(***************************************************************************)
(* InvalidCache.                                                           *)
(***************************************************************************)
\* C12: InvalidCache never reaches the caller of a run, whatever the
\* stores hold (a slot whose input hash was saved and whose output was
\* not included): a slot that cannot be read is a miss.
C12_InvalidCacheIsAMiss ==
    (last.ran /\ last.fault = NoFault) => last.exc.kind # "InvalidCache"

(***************************************************************************)
(* finalize().                                                             *)
(***************************************************************************)
\* the exit at position x of the events of the last run comes after a
\* finalize() of the same pipeline made in the same invocation of _run
FinalizedBefore(x) ==
    LET v == last.log.ev
        same(i) == v[i].e = v[x].e /\ v[i].kind = v[x].kind
        en == CHOOSE i \in 1..(x - 1) :
                  /\ v[i].ev = "enter" /\ same(i)
                  /\ \A j \in (i + 1)..(x - 1) : ~(v[j].ev = "enter" /\ same(j))
    IN \E y \in (en + 1)..(x - 1) : v[y].ev = "finalize" /\ same(y)

\* C13: every exit from Pipeline._run and from IterativePipeline._run
\* (normal completion, cache hit, return at untilStep, and the raising of
\* UntilStepReached, PipelineHalted or SkipIteration; PipelineBreak ends
\* the run of the pipeline that catches it) comes after a call of
\* finalize() of that pipeline.
C13_FinalizeOnEveryExit ==
    last.ran =>
        \A x \in 1..Len(last.log.ev) :
            last.log.ev[x].ev = "exit" => FinalizedBefore(x)

(***************************************************************************)
(* The iterative executor, task by task.  IterativePipeline._run over the  *)
(* single leaf A, in its three modes: sequential, sequentialInstances      *)
(* ("chained") and parallel.  In parallel mode the tasks are threads of    *)
(* one process (prefer="threads", require="sharedmem"); every task builds  *)
(* its own ChildPipeline over the SAME step objects (steps=self.steps), so *)
(* the attribute _instID of the step is shared by the tasks, and a thread  *)
(* may be preempted between any two accesses of it.                        *)
(***************************************************************************)
AllKeys == <<"k1", "k2", "k3">>
ExeModes == {"sequential", "chained", "parallel"}
\* what the run of the pipeline of a key does: returns, raises
\* SkipIteration or an error in fn, or stops at untilStep
Behaviours == {"ok", "SkipIteration", "UntilStepReached", "BlockError"}
TreeTasks == IterativePipeline(<<"I">>, <<LeafA>>)
StepA == compositeName(TreeTasks.name, LeafA.name)

\* the instance ID handed to _singleTask for a key
TaskInst(mode, pinst, keys, key) ==
    IF mode = "parallel"
    THEN IF pinst # NoInst THEN JoinInst(pinst, key) ELSE <<key>>
    ELSE IF pinst # NoInst /\ ~(\E j \in 1..Len(keys) : pinst = <<keys[j]>>)
         THEN JoinInst(pinst, key) ELSE <<key>>
Me(i) == TaskInst(exe.mode, exe.pinst, exe.keys, exe.keys[i])

\* what _singleTask returns when the pipeline of the key returned out
SingleTaskReturn(out) == <<"(">> \o out \o <<",1)">>
NoRes == [kind |-> "none", data |-> <<>>]
\* the results that end the whole run: neither a value nor one of the two
\* exceptions that _singleTask returns as values
Fatal(res) == res.kind \notin {"none", "ok", "SkipIteration", "UntilStepReached"}

InitTasks ==
    /\ tree = TreeTasks
    /\ cache = [e \in ElemNames(tree) |-> EmptySlot]
    /\ memo = [e \in ElemNames(tree) |-> NoneHash]
    /\ iids = [e \in ElemNames(tree) |-> NoStep]
    /\ fnVer = [l \in LeafNames(tree) |-> 0]
    /\ maxSaved = MaxSavedLimit
    /\ last = NoRun
    /\ prev = NoRun
    /\ nruns = 0
    /\ \E n \in 0..MaxKeys, mode \in ExeModes, root \in BOOLEAN,
          pinst \in {NoInst, <<"p">>, <<"k1">>}, same \in BOOLEAN,
          beh \in [1..MaxKeys -> Behaviours] :
          exe = [root |-> root, keys |-> SubSeq(AllKeys, 1, n), phase |-> "new", acc |-> <<>>,
                 mode |-> mode,
                 pinst |-> pinst,
                 beh |-> [i \in 1..n |-> beh[i]],
                 \* inps[key]: () for a list of keys, else the arguments of the key
                 inps |-> [i \in 1..n |-> IF same THEN <<>> ELSE <<AllKeys[i]>>],
                 \* the attribute _instID of the step A, as the constructor of
                 \* the iterative pipeline left it
                 stepInst |-> pinst,
                 thr |-> [i \in 1..n |-> [inp |-> <<>>, val |-> <<>>, res |-> NoRes,
                                          pc |-> "new"]], fin |-> <<>>,
                 outcome |-> [out |-> <<>>, exc |-> NoExc, ended |-> FALSE,
                              finalized |-> FALSE]]

Same == UNCHANGED <<tree, memo, iids, fnVer, maxSaved, last, prev, nruns>>

\* the start of _run: initializeIterations(keys); saveInstances()
Register ==
    /\ exe.phase = "new"
    /\ exe' = [exe EXCEPT !.phase = "tasks"]
    /\ iids' = [iids EXCEPT ![tree.name] = exe.keys]
    /\ cache' = [cache EXCEPT ![tree.name] = saveInstances(@, exe.pinst, exe.keys)]
    /\ UNCHANGED <<tree, memo, fnVer, maxSaved, last, prev, nruns>>

\* the task of the i-th key may take a step: any unfinished task in
\* parallel mode; otherwise the first unfinished one, as long as no task
\* before it ended the run
Turn(i, pc) ==
    /\ exe.phase = "tasks"
    /\ i \in 1..Len(exe.keys)
    /\ exe.thr[i].pc = pc
    /\ exe.mode # "parallel" =>
           \A j \in 1..(i - 1) : exe.thr[j].pc = "done" /\ ~Fatal(exe.thr[j].res)

Access(i, op) == [inst |-> exe.stepInst, op |-> op, task |-> i]

\* _singleTask up to ChildPipeline(...): the input of the task is chosen by
\* _run; the constructor sets step.instID for every step
TaskNew(i) ==
    /\ Turn(i, "new")
    /\ LET before == IF exe.mode = "chained" /\ i > 1 THEN exe.thr[i - 1].res ELSE NoRes
           inp == IF before = NoRes THEN exe.inps[i] ELSE before.data
       IN IF before.kind \in {"SkipIteration", "UntilStepReached"}
          THEN \* [str(x) for x in inps] over an exception object
               exe' = [exe EXCEPT !.thr[i].pc = "done",
                                  !.thr[i].res = Exc("TypeError", <<>>),
                                  !.fin = Append(@, i)]
          ELSE exe' = [exe EXCEPT !.thr[i].pc = "set", !.thr[i].inp = inp,
                                  !.stepInst = Me(i)]
    /\ UNCHANGED cache /\ Same

\* Pipeline._run of the task: step._instID = self._instID
TaskSet(i) ==
    /\ Turn(i, "set")
    /\ exe' = [exe EXCEPT !.thr[i].pc = "check", !.stepInst = Me(i)]
    /\ UNCHANGED cache /\ Same

\* Cacher.cached on the step: checkInput reads input_hash[str(self.instID)]
TaskCheck(i) ==
    /\ Turn(i, "check")
    /\ LET k == InstKey(exe.stepInst)
           hit == /\ Has(cache[StepA].ih, k)
                  /\ Get(cache[StepA].ih, k) = HashArgs(exe.thr[i].inp)
       IN exe' = [exe EXCEPT !.thr[i].pc = IF hit THEN "load" ELSE "fn",
                             !.acc = Append(@, Access(i, "read input_hash"))]
    /\ UNCHANGED cache /\ Same

\* loadCachedOutput reads output[str(self.instID)]
TaskLoad(i) ==
    /\ Turn(i, "load")
    /\ LET k == InstKey(exe.stepInst)
           out == IF Has(cache[StepA].out, k) THEN Get(cache[StepA].out, k) ELSE <<>>
       IN exe' = [exe EXCEPT !.thr[i].pc = "fin",
                             !.thr[i].val = out,
                             !.thr[i].res = IF Has(cache[StepA].out, k)
                                            THEN [kind |-> "ok", data |-> SingleTaskReturn(out)]
                                            ELSE Exc("InvalidCache", <<>>),
                             !.acc = Append(@, Access(i, "read output"))]
    /\ UNCHANGED cache /\ Same

\* Block._run: fn is invoked
TaskFn(i) ==
    /\ Turn(i, "fn")
    /\ LET b == exe.beh[i]
           out == fn(LeafA, StepA, exe.thr[i].inp, [ver |-> fnVer])
       IN exe' = IF b \in {"SkipIteration", "BlockError"}
                 THEN [exe EXCEPT !.thr[i].pc = "fin", !.thr[i].res = Exc(b, <<>>)]
                 ELSE [exe EXCEPT !.thr[i].pc = "saveih", !.thr[i].val = out]
    /\ UNCHANGED cache /\ Same

\* updateCache: saveInputHash writes input_hash[str(self.instID)]
TaskSaveInputHash(i) ==
    /\ Turn(i, "saveih")
    /\ cache' = [cache EXCEPT ![StepA].ih = Put(@, InstKey(exe.stepInst),
                                                 HashArgs(exe.thr[i].inp))]
    /\ exe' = [exe EXCEPT !.thr[i].pc = "saveout",
                          !.acc = Append(@, Access(i, "write input_hash"))]
    /\ Same

\* saveOutputToCache writes output[str(self.instID)] ...
TaskSaveOutput(i) ==
    /\ Turn(i, "saveout")
    /\ cache' = [cache EXCEPT ![StepA].out = Put(@, InstKey(exe.stepInst), exe.thr[i].val)]
    /\ exe' = [exe EXCEPT !.thr[i].pc = "saveoh",
                          !.acc = Append(@, Access(i, "write output"))]
    /\ Same

\* ... and then output_hash[str(self.instID)]; the step returns and the
\* pipeline of the task returns its output or raises UntilStepReached
TaskSaveOutputHash(i) ==
    /\ Turn(i, "saveoh")
    /\ cache' = [cache EXCEPT ![StepA].oh = Put(@, InstKey(exe.stepInst),
                                                 Hash(exe.thr[i].val))]
    /\ exe' = [exe EXCEPT !.thr[i].pc = "fin",
                          !.thr[i].res =
                              IF exe.beh[i] = "UntilStepReached"
                              THEN Exc("UntilStepReached", exe.thr[i].val)
                              ELSE [kind |-> "ok", data |-> SingleTaskReturn(exe.thr[i].val)],
                          !.acc = Append(@, Access(i, "write output_hash"))]
    /\ Same

\* finally: self.updateParams(self.params) sets step.instID = self.instID
TaskFinally(i) ==
    /\ Turn(i, "fin")
    /\ exe' = [exe EXCEPT !.thr[i].pc = "done", !.stepInst = exe.pinst,
                          !.fin = Append(@, i)]
    /\ UNCHANGED cache /\ Same

\* the list returned by Parallel(...)(...): the results in the order of
\* the calls; the sequential loop sees them in the same order
RetList(e) == [j \in 1..Len(e.keys) |-> e.thr[j].res]

\* (variant: the keys in the order in which their tasks completed)
KeyAtCompleted(e, j) == e.keys[e.fin[j]]
\* the key of the j-th pair of zip(inps.keys(), retList)
KeyAt(e, j) == e.keys[j]

\* the loop over zip(inps.keys(), retList) from the j-th pair on
RECURSIVE Zip(_, _, _, _)
Zip(e, rl, j, st) ==
    IF j > Len(rl) \/ j > Len(e.keys) THEN st
    ELSE LET it == rl[j]
             until == it.kind = "UntilStepReached"
             reached == IF e.mode = "parallel" THEN until ELSE st.stepReached \/ until
         IN IF it.kind = "SkipIteration"
            THEN Zip(e, rl, j + 1, [st EXCEPT !.failed = @ + 1, !.stepReached = reached])
            ELSE Zip(e, rl, j + 1,
                     [st EXCEPT !.stepReached = reached,
                                !.ret = Append(@, [key |-> KeyAt(e, j), val |-> it.data])])

\* the end of _run
Outcome(e) ==
    LET rl == RetList(e)
        bad == {j \in 1..Len(rl) : Fatal(rl[j])}
        st == Zip(e, rl, 1, [ret |-> <<>>, failed |-> 0, stepReached |-> FALSE])
        agg == <<st.ret>>
    IN IF bad # {}
       THEN [out |-> <<>>, exc |-> rl[CHOOSE j \in bad : \A x \in bad : j <= x],
             ended |-> TRUE, finalized |-> FALSE]
       ELSE IF st.failed = Len(e.keys)
       THEN [out |-> <<>>, exc |-> Exc("SkipIteration", <<>>), ended |-> TRUE,
             finalized |-> FALSE]
       ELSE IF st.stepReached
       THEN IF e.root
            THEN [out |-> agg, exc |-> NoExc, ended |-> TRUE, finalized |-> FALSE]
            ELSE [out |-> <<>>, exc |-> Exc("UntilStepReached", agg), ended |-> TRUE,
                  finalized |-> FALSE]
       ELSE [out |-> agg, exc |-> NoExc, ended |-> TRUE, finalized |-> TRUE]

\* _run ends: every task is over, or one ended the sequential loop
Gather ==
    /\ exe.phase = "tasks"
    /\ \/ \A i \in 1..Len(exe.keys) : exe.thr[i].pc = "done"
       \/ /\ exe.mode # "parallel"
          /\ \E i \in 1..Len(exe.keys) : exe.thr[i].pc = "done" /\ Fatal(exe.thr[i].res)
    /\ exe' = [exe EXCEPT !.phase = "done", !.outcome = Outcome(exe)]
    /\ UNCHANGED cache /\ Same

Task ==
    \E i \in 1..MaxKeys :
        \/ TaskNew(i) \/ TaskSet(i) \/ TaskCheck(i) \/ TaskLoad(i) \/ TaskFn(i)
        \/ TaskSaveInputHash(i) \/ TaskSaveOutput(i) \/ TaskSaveOutputHash(i)
        \/ TaskFinally(i)

NextTasks == Register \/ Task \/ Gather

SpecTasks == InitTasks /\ [][NextTasks]_vars

\* C14: in parallel mode, under every interleaving of the tasks, every
\* read and every write of the cache of a step (input hash, output, output
\* hash) made by the task of a key is made under the instance ID derived
\* from that key: parentInstance/key, or key when the iterative pipeline has
\* no instance.
C14_InstanceSlots ==
    (exe.phase # "off" /\ exe.mode = "parallel") =>
        \A x \in 1..Len(exe.acc) :
            exe.acc[x].inst =
                (IF exe.pinst = NoInst THEN <<exe.keys[exe.acc[x].task]>>
                 ELSE JoinInst(exe.pinst, exe.keys[exe.acc[x].task]))

\* the positions in the input of the keys of a returned mapping
Positions(ret) ==
    [x \in 1..Len(ret) |-> CHOOSE j \in 1..Len(exe.keys) : exe.keys[j] = ret[x].key]
Returned == IF exe.outcome.exc = NoExc THEN exe.outcome.out[1] ELSE exe.outcome.exc.data[1]

\* C15: in parallel mode the mapping returned by the iterative executor
\* iterates its keys in the order of the input keys, whatever the order in
\* which the tasks completed.
C15_InputOrder ==
    (exe.phase = "done" /\ exe.mode = "parallel"
        /\ exe.outcome.exc.kind \in {"none", "UntilStepReached"}) =>
        /\ \A x \in 1..Len(Returned) : \E j \in 1..Len(exe.keys) : exe.keys[j] = Returned[x].key
        /\ \A x, y \in 1..Len(Returned) :
               x < y => Positions(Returned)[x] < Positions(Returned)[y]

\* the task of the second key completed before the task of the first and
\* the mapping holds both keys
C15_Witness ==
    /\ exe.phase = "done" /\ exe.mode = "parallel" /\ exe.outcome.exc = NoExc
    /\ Len(exe.fin) = 2 /\ exe.fin[1] = 2
    /\ Len(exe.outcome.out[1]) = 2

\* every task returned the output of its pipeline or was skipped
ReturnedOrSkipped ==
    \A i \in 1..Len(exe.keys) : exe.thr[i].res.kind \in {"ok", "SkipIteration"}
\* the tasks that were not skipped, in the order of the input
NotSkipped == SelectSeq([i \in 1..Len(exe.keys) |-> i],
                        LAMBDA i : exe.thr[i].res.kind # "SkipIteration")

\* C16: the iterative executor raises SkipIteration if every task fails
\* with SkipIteration; otherwise it returns a 1-tuple holding an ordered
\* mapping that contains exactly the keys whose task did not fail, each
\* mapped to the output of the pipeline of that task.
C16_Aggregate ==
    (exe.phase = "done" /\ ReturnedOrSkipped) =>
        IF NotSkipped = <<>>
        THEN exe.outcome.exc.kind = "SkipIteration"
        ELSE /\ exe.outcome.exc = NoExc
             /\ Len(exe.outcome.out) = 1
             /\ exe.outcome.out[1] =
                    [x \in 1..Len(NotSkipped) |->
                        [key |-> exe.keys[NotSkipped[x]],
                         val |-> exe.thr[NotSkipped[x]].val]]

\* some task signalled UntilStepReached and no task ended with an error
Signalled ==
    /\ \E i \in 1..Len(exe.keys) : exe.thr[i].res.kind = "UntilStepReached"
    /\ \A i \in 1..Len(exe.keys) : ~Fatal(exe.thr[i].res)
\* the mapping of the keys that were not skipped to what their tasks gave,
\* in a 1-tuple
Handed ==
    <<[x \in 1..Len(NotSkipped) |->
          [key |-> exe.keys[NotSkipped[x]], val |-> exe.thr[NotSkipped[x]].res.data]]>>

\* C17: if at least one task of an iterative run signals UntilStepReached
\* (whichever key it is, in sequential and in parallel mode, and also when
\* other tasks are skipped), the iterative executor returns the aggregate
\* when it is the root and raises UntilStepReached(aggregate) when it is not.
C17_UntilAggregate ==
    (exe.phase = "done" /\ Signalled) =>
        IF exe.root
        THEN exe.outcome.exc = NoExc /\ exe.outcome.out = Handed
        ELSE exe.outcome.exc = Exc("UntilStepReached", Handed)

\* C18: in sequentialInstances mode the first task receives the arguments
\* mapped to its key and, for every n >= 1, the input given to task n is the
\* output that the run of the pipeline of task n-1 produced.
C18_Chained ==
    (exe.phase # "off" /\ exe.mode = "chained") =>
        \A i \in 1..Len(exe.keys) :
            exe.thr[i].pc \notin {"new", "set"} =>
                IF i = 1 THEN exe.thr[i].inp = exe.inps[i]
                ELSE exe.thr[i - 1].res.kind = "ok" =>
                         exe.thr[i].inp = exe.thr[i - 1].val

\* C19: after an iterative run over the keys K for the outer instance p,
\* cached_instances[p] is the list of K in input order; it is written
\* before any task runs, so it holds also when tasks are skipped or halt.
C19_Registry ==
    (exe.phase # "off"
        /\ (exe.phase = "done" \/ \E i \in 1..Len(exe.keys) : exe.thr[i].pc # "new")) =>
        /\ Has(cache[tree.name].ci, InstKey(exe.pinst))
        /\ Get(cache[tree.name].ci, InstKey(exe.pinst)) = exe.keys

\* a run over two keys whose first task was skipped and whose second task
\* halted with an error
C19_Witness ==
    /\ exe.phase = "done" /\ Len(exe.keys) = 2 /\ exe.pinst = <<"p">>
    /\ exe.thr[1].res.kind = "SkipIteration"
    /\ exe.thr[2].res.kind = "BlockError"
    /\ exe.outcome.exc.kind = "BlockError"
    /\ Get(cache[tree.name].ci, <<"p">>) = <<"k1", "k2">>

(***************************************************************************)
(* SwitchPipeline: an iterative pipeline whose steps are one of several    *)
(* lists, chosen by the property `steps` from the attribute currentInstCnt *)
(* each time a task builds its ChildPipeline(steps=self.steps).  Positions *)
(* and indexes are counted from 0, as in the code.                         *)
(***************************************************************************)
\* the constructor: 0 is put in front of switchSteps unless it is there
SwitchSteps(given) ==
    IF given = <<>> THEN <<>>
    ELSE IF given[1] # 0 THEN <<0>> \o given ELSE given

\* the arguments the constructor accepts: increasing boundaries with as
\* many lists as boundaries, or a period with any number of lists
SwitchConfigs ==
    {[switchSteps |-> SwitchSteps(g), switchStepsEvery |-> 0,
      lists |-> Len(SwitchSteps(g))] :
        g \in {<<a>> : a \in 0..MaxBoundary}
              \cup {ab \in (0..MaxBoundary) \X (0..MaxBoundary) : ab[1] < ab[2]}}
    \cup {[switchSteps |-> <<>>, switchStepsEvery |-> every, lists |-> n] :
              every \in 1..2, n \in 1..MaxLists}

\* SwitchPipeline.steps: the index of the list when currentInstCnt is cnt
ListIndex(cfg, cnt) ==
    IF cfg.switchSteps # <<>>
    THEN LET ind == {c \in 1..Len(cfg.switchSteps) : cfg.switchSteps[c] >= cnt}
         IN IF ind # {} THEN (CHOOSE c \in ind : \A d \in ind : c <= d) - 1
            ELSE cfg.lists - 1
    ELSE (cnt \div cfg.switchStepsEvery) % cfg.lists

InitSwitch ==
    /\ tree = TreeTasks
    /\ cache = [e \in ElemNames(tree) |-> EmptySlot]
    /\ memo = [e \in ElemNames(tree) |-> NoneHash]
    /\ iids = [e \in ElemNames(tree) |-> NoStep]
    /\ fnVer = [l \in LeafNames(tree) |-> 0]
    /\ maxSaved = MaxSavedLimit
    /\ last = NoRun
    /\ prev = NoRun
    /\ nruns = 0
    /\ \E n \in 1..MaxSwitchKeys, mode \in {"sequential", "parallel"},
          cfg \in SwitchConfigs :
          exe = [n |-> n, phase |-> "new", mode |-> mode, thr |-> [i \in 1..n |-> [j |-> 0, pc |-> "new", list |-> 0]],
                 cfg |-> cfg,
                 \* the constructor's updateParams leaves the last index
                 currentInstCnt |-> cfg.lists - 1]

Fixed == UNCHANGED <<tree, cache, memo, iids, fnVer, maxSaved, last, prev, nruns>>

\* the start of _run: self.currentInstCnt = 0
SwitchBegin ==
    /\ exe.phase = "new"
    /\ exe' = [exe EXCEPT !.phase = "tasks", !.currentInstCnt = 0]
    /\ Fixed

SwitchTurn(i, pc) ==
    /\ exe.phase = "tasks"
    /\ i \in 1..exe.n
    /\ exe.thr[i].pc = pc
    /\ exe.mode # "parallel" => \A j \in 1..(i - 1) : exe.thr[j].pc = "done"

\* the task of the key at position i - 1 builds ChildPipeline(steps=
\* self.steps); the sequential loop is `for self.currentInstCnt, key in
\* enumerate(inps.keys())`, the parallel branch does not assign it
SwitchTaskNew(i) ==
    /\ SwitchTurn(i, "new")
    /\ LET cnt == IF exe.mode = "parallel" THEN exe.currentInstCnt ELSE i - 1
       IN exe' = [exe EXCEPT !.currentInstCnt = cnt,
                             !.thr[i].list = ListIndex(exe.cfg, cnt),
                             !.thr[i].pc = "run"]
    /\ Fixed

\* the pipeline of the task runs the steps it was built with
SwitchTaskRun(i) ==
    /\ SwitchTurn(i, "run")
    /\ exe' = [exe EXCEPT !.thr[i].pc = "upd", !.thr[i].j = 0]
    /\ Fixed

\* finally: self.updateParams(self.params), which in SwitchPipeline is
\* `for self.currentInstCnt in range(len(self.stepsLists))`
SwitchUpdateParams(i) ==
    /\ SwitchTurn(i, "upd")
    /\ exe' = IF exe.thr[i].j < exe.cfg.lists
              THEN [exe EXCEPT !.currentInstCnt = exe.thr[i].j, !.thr[i].j = @ + 1]
              ELSE [exe EXCEPT !.thr[i].pc = "done"]
    /\ Fixed

SwitchEnd ==
    /\ exe.phase = "tasks"
    /\ \A i \in 1..exe.n : exe.thr[i].pc = "done"
    /\ exe' = [exe EXCEPT !.phase = "done"]
    /\ Fixed

SwitchTask ==
    \E i \in 1..MaxSwitchKeys :
        SwitchTaskNew(i) \/ SwitchTaskRun(i) \/ SwitchUpdateParams(i)

NextSwitch == SwitchBegin \/ SwitchTask \/ SwitchEnd

SpecSwitch == InitSwitch /\ [][NextSwitch]_vars

\* the index of the list for the key at position p, as stated
StatedIndex(p) ==
    IF exe.cfg.switchSteps # <<>>
    THEN IF \E c \in 1..Len(exe.cfg.switchSteps) : exe.cfg.switchSteps[c] >= p
         THEN (CHOOSE c \in 1..Len(exe.cfg.switchSteps) :
                  /\ exe.cfg.switchSteps[c] >= p
                  /\ \A d \in 1..(c - 1) : exe.cfg.switchSteps[d] < p) - 1
         ELSE Len(exe.cfg.switchSteps) - 1
    ELSE (p \div exe.cfg.switchStepsEvery) % exe.cfg.lists

\* C20: for every key at position i of the input (i = 0, 1, ...), in
\* sequential and in parallel mode, the steps run by the task of that key
\* are stepsLists[listIndex(i)], where listIndex(i) is the index of the
\* first boundary in switchSteps that is >= i (the last index if none) or,
\* in periodic mode, (i div switchStepsEvery) mod len(stepsLists); it is
\* always a valid index.
C20_SwitchSelection ==
    exe.phase # "off" =>
        \A i \in 1..exe.n :
            exe.thr[i].pc # "new" =>
                /\ exe.thr[i].list = StatedIndex(i - 1)
                /\ exe.thr[i].list \in 0..(exe.cfg.lists - 1)

(***************************************************************************)
(* untilStep that names nothing.                                           *)
(***************************************************************************)
\* no element below the root has a composite name that ends with s
NoDescendantMatches(s) ==
    \A e \in ElemNames(tree) \ {tree.name} : ~EndsWith(e, s)

\* C21: a root run whose untilStep matches no descendant fails with
\* PipelineHalted before any child is run: no fn of a leaf is invoked, no
\* pipeline below the root is entered and no cache store is written.
C21_UnknownUntilStep ==
    (last.ran /\ last.args.until # NoStep /\ NoDescendantMatches(last.args.until)) =>
        /\ last.exc.kind = "PipelineHalted"
        /\ last.log.calls = <<>>
        /\ \A x \in 1..Len(last.log.ev) : last.log.ev[x].e = tree.name
        /\ cache = last.pre

\* a run until a step that does not exist, over a cache that earlier
\* runs have filled
C21_Witness ==
    /\ last.ran /\ last.args.until = <<"D">> /\ tree = TreeFlat
    /\ last.exc.kind = "PipelineHalted"
    /\ prev.ran /\ prev.exc = NoExc
    /\ cache[tree.name].out # <<>>

(***************************************************************************)
(* forceRunSteps.                                                          *)
(***************************************************************************)
\* the leaves that the forceRunSteps of the last run name
Forced == {l \in LeafNames(tree) : \E y \in last.args.frs : EndsWith(l, y)}

\* C22: in a run without untilStep, every leaf whose composite name ends
\* with one of the forceRunSteps suffixes has its fn invoked even when its
\* cache slot is valid, at any nesting depth, also under an iterative
\* pipeline (and a suffix that matches no leaf changes nothing and raises
\* nothing).  Stated here for the runs that return: every named leaf is
\* among the leaves invoked.
C22_ForceRunSteps ==
    (last.ran /\ last.args.until = NoStep /\ last.exc = NoExc) =>
        \A l \in Forced : \E i \in 1..Len(Invoked) : Invoked[i] = l

(***************************************************************************)
(* Runs that start from a step.                                            *)
(***************************************************************************)
\* Pipeline._run(inp, untilStep, _fromStep) on the root, both naming the
\* same leaf by its composite name
RunFrom ==
    \E inst \in Insts, inp \in Inputs, leaf \in LeafNames(tree) :
        RootRun([Args(inst, inp, FALSE, leaf, {}) EXCEPT !.fromStep = leaf], NoFault)

NextFrom == RunFrom \/ ChangeFn \/ Construct

SpecFrom == Init /\ [][NextFrom]_vars

\* C23: a run with fromStep and untilStep naming the same step invokes the
\* fn of exactly that one step and of no other leaf.
C23_FromUntilSameStep ==
    (last.ran /\ last.args.fromStep # NoStep /\ last.args.fromStep = last.args.until) =>
        Invoked = <<last.args.fromStep>>

(***************************************************************************)
(* Structural edits of the tree (HierarchyNode and the wrappers of         *)
(* Pipeline).  An element carries its identity; a node keeps the list      *)
(* names next to its children, as the code does.  After an edit through a  *)
(* Pipeline, updateParams sets the parent of every step below it, so the   *)
(* composite name of an element is given by its place in the tree.         *)
(***************************************************************************)
HierarchyLeaf(id, name) ==
    [name |-> name, kind |-> "leaf", steps |-> <<>>, names |-> <<>>, id |-> id]

NamesOf(children) == [i \in 1..Len(children) |-> children[i].name]

HierarchyNode(id, name, children) ==
    [name |-> name, kind |-> "pipe", steps |-> children, names |-> NamesOf(children),
     id |-> id]

\* str.replace(sub, ""): every occurrence of sub is dropped, left to right
RECURSIVE RemoveAll(_, _)
RemoveAll(s, sub) ==
    IF sub = <<>> \/ Len(s) < Len(sub) THEN s
    ELSE IF SubSeq(s, 1, Len(sub)) = sub
         THEN RemoveAll(SubSeq(s, Len(sub) + 1, Len(s)), sub)
         ELSE <<Head(s)>> \o RemoveAll(Tail(s), sub)

\* s.split(".")[-1]
RECURSIVE LastSegment(_)
LastSegment(s) ==
    IF \E i \in 1..Len(s) : s[i] = DOT THEN LastSegment(Tail(s)) ELSE s

\* s[:-1]
DropLast(s) == IF s = <<>> THEN <<>> ELSE SubSeq(s, 1, Len(s) - 1)

MinOf(S) == CHOOSE x \in S : \A y \in S : x <= y
MaxOf(S) == CHOOSE x \in S : \A y \in S : y <= x

\* the element at the place p (the indices of the children from the root)
RECURSIVE NodeAt(_, _)
NodeAt(node, p) ==
    IF p = <<>> THEN node ELSE NodeAt(node.steps[Head(p)], Tail(p))

\* the tree with the element at the place p mutated into new
RECURSIVE SetAt(_, _, _)
SetAt(node, p, new) ==
    IF p = <<>> THEN new
    ELSE [node EXCEPT !.steps[Head(p)] = SetAt(@, Tail(p), new)]

\* collapsedParents: the nodes below a node, depth first, with their places
RECURSIVE collapsedParents(_, _, _)
collapsedParents(node, cn, p) ==
    Concat([i \in 1..Len(node.steps) |->
        LET ch == node.steps[i]
            ccn == compositeName(cn, ch.name)
        IN IF IsPipeline(ch)
           THEN <<[cn |-> ccn, path |-> Append(p, i)]>> \o
                collapsedParents(ch, ccn, Append(p, i))
           ELSE <<>>])

\* list.insert(index, x) and list.pop(index), index counted from 0
ListInsert(s, index, x) == SubSeq(s, 1, index) \o <<x>> \o SubSeq(s, index + 1, Len(s))
ListPop(s, index) == SubSeq(s, 1, index) \o SubSeq(s, index + 2, Len(s))
\* (variant: the new step goes to the end of the list)
ListAssignAtEnd(s, index, x) == Append(ListPop(s, index), x)
\* self.children[index] = newStep
ListAssign(s, index, x) == [s EXCEPT ![index + 1] = x]

\* the end of insertBefore, insertAfter, remove and replace in the node
\* that holds the child, found at the position k of self.names
EditHere(self, op, k) ==
    IF op.kind = "insertBefore"
    THEN [self EXCEPT !.steps = ListInsert(self.steps, k - 1, op.child),
                      !.names = NamesOf(ListInsert(self.steps, k - 1, op.child))]
    ELSE IF op.kind = "insertAfter"
    THEN [self EXCEPT !.steps = ListInsert(self.steps, k, op.child),
                      !.names = NamesOf(ListInsert(self.steps, k, op.child))]
    ELSE IF op.kind = "remove"
    THEN [self EXCEPT !.steps = ListPop(self.steps, k - 1),
                      !.names = NamesOf(ListPop(self.steps, k - 1))]
    \* replace leaves self.names as it was
    ELSE [self EXCEPT !.steps = ListAssign(self.steps, k - 1, op.child)]

EditDone(t) == [exc |-> "none", t |-> t]
EditFails(t, kind) == [exc |-> kind, t |-> t]

\* Pipeline.insertBefore / insertAfter / remove / replace called on the
\* pipeline at the place p (composite name cn) of the tree t: the search
\* among the leaves, the walk to the enclosing parent, the edit there
RECURSIVE Edit(_, _, _, _)
Edit(t, p, cn, op) ==
    LET self == NodeAt(t, p)
        children == collapsedNames(self, cn)
        found == {i \in 1..Len(children) : EndsWith(children[i], op.arg)}
    IN IF found = {}
       THEN IF op.kind = "remove" /\ op.okNotExist
            THEN EditDone(t)
            \* IndexError, raised again as PipelineHalted
            ELSE EditFails(t, "PipelineHalted")
       ELSE
       LET name == children[MinOf(found)]
           segment == LastSegment(op.arg)
           prefix == RemoveAll(name, segment)
       IN IF prefix # cn \o <<DOT>>
          THEN LET parents == collapsedParents(self, cn, p)
                   keyed == {i \in 1..Len(parents) : parents[i].cn = DropLast(prefix)}
               IN IF keyed = {}
                  THEN EditFails(t, "KeyError")
                  ELSE Edit(t, parents[MaxOf(keyed)].path, parents[MaxOf(keyed)].cn,
                            [op EXCEPT !.arg = segment, !.okNotExist = FALSE])
          ELSE LET index == {k \in 1..Len(self.names) : self.names[k] = op.arg}
               IN IF index = {}
                  THEN EditFails(t, "PipelineHalted")
                  ELSE EditDone(SetAt(t, p, EditHere(self, op, MinOf(index))))

\* Pipeline.append / prepend on the root
Extend(t, op) ==
    LET ch == IF op.kind = "append" THEN Append(t.steps, op.child)
              ELSE <<op.child>> \o t.steps
    IN EditDone([t EXCEPT !.steps = ch, !.names = NamesOf(ch)])

\* the trees that are edited, the steps that are handed to the edits and
\* the suffixes that are asked for
EditTrees ==
    {HierarchyNode("p", <<"P">>, <<HierarchyLeaf("a", <<"A">>), HierarchyLeaf("b", <<"B">>)>>),
     HierarchyNode("p", <<"P">>,
         <<HierarchyLeaf("a", <<"A">>),
           HierarchyNode("q", <<"Q">>, <<HierarchyLeaf("b", <<"B">>),
                                         HierarchyLeaf("d", <<"D">>)>>)>>),
     HierarchyNode("p", <<"P">>, <<HierarchyLeaf("ab", <<"A", "B">>),
                                   HierarchyLeaf("b", <<"B">>)>>),
     HierarchyNode("p", <<"P">>,
         <<HierarchyNode("q", <<"Q">>,
               <<HierarchyNode("r", <<"R">>, <<HierarchyLeaf("rb", <<"B">>)>>),
                 HierarchyLeaf("b", <<"B">>)>>)>>)}
NewSteps ==
    {HierarchyLeaf("n", <<"N">>), HierarchyLeaf("b2", <<"B">>),
     HierarchyNode("m", <<"M">>, <<HierarchyLeaf("z", <<"Z">>)>>)}
Suffixes == {<<"B">>, <<"N">>, <<"M">>, <<"Q", ".", "B">>, <<"X">>}

NoStepGiven == HierarchyLeaf("", <<>>)
NoEdit == [kind |-> "none", child |-> NoStepGiven, arg |-> <<>>, okNotExist |-> FALSE]

\* the identities of the elements of a tree
RECURSIVE Ids(_)
Ids(node) == {node.id} \cup UNION {Ids(node.steps[i]) : i \in 1..Len(node.steps)}

InitEdits ==
    /\ tree \in EditTrees
    /\ cache = [e \in ElemNames(tree) |-> EmptySlot]
    /\ memo = [e \in ElemNames(tree) |-> NoneHash]
    /\ iids = [e \in ElemNames(tree) |-> NoStep]
    /\ fnVer = [l \in LeafNames(tree) |-> 0]
    /\ maxSaved = MaxSavedLimit
    /\ last = NoRun
    /\ prev = NoRun
    /\ nruns = 0
    /\ exe = [n |-> 0, out |-> NoStepGiven, phase |-> "edit", res |-> "none", pre |-> tree,
              op |-> NoEdit, op2 |-> NoEdit, res2 |-> "none", pre2 |-> tree]

\* the edit op is called on the root and returns or raises r; the step it
\* displaced (replace) stays in the hands of the caller
Does(op, r) ==
    /\ exe.phase = "edit" /\ exe.n < MaxEdits
    /\ tree' = r.t
    /\ exe' = [exe EXCEPT !.n = @ + 1, !.op = op, !.res = r.exc, !.pre = tree,
                          !.op2 = exe.op, !.res2 = exe.res, !.pre2 = exe.pre,
                          !.out = IF op.kind = "replace" /\ r.exc = "none"
                                     /\ Ids(tree) \ Ids(r.t) # {}
                                  THEN CHOOSE x \in {c.node : c \in
                                           SeqRange(collapsedChildrenAndParents(tree, tree.name))} :
                                         Ids(x) = Ids(tree) \ Ids(r.t)
                                  ELSE exe.out]
    /\ UNCHANGED <<cache, memo, iids, fnVer, maxSaved, last, prev, nruns>>

\* a step that is not in the tree
Givable == {c \in NewSteps \cup {exe.out} : c # NoStepGiven /\ Ids(c) \cap Ids(tree) = {}}

insertBefore ==
    \E before \in Suffixes, child \in Givable :
        LET op == [kind |-> "insertBefore", child |-> child, arg |-> before,
                   okNotExist |-> FALSE]
        IN Does(op, Edit(tree, <<>>, tree.name, op))

insertAfter ==
    \E after \in Suffixes, child \in Givable :
        LET op == [kind |-> "insertAfter", child |-> child, arg |-> after,
                   okNotExist |-> FALSE]
        IN Does(op, Edit(tree, <<>>, tree.name, op))

remove ==
    \E childName \in Suffixes, okNotExist \in BOOLEAN :
        LET op == [kind |-> "remove", child |-> NoStepGiven, arg |-> childName,
                   okNotExist |-> okNotExist]
        IN Does(op, Edit(tree, <<>>, tree.name, op))

replace ==
    \E childName \in Suffixes, newStep \in Givable :
        LET op == [kind |-> "replace", child |-> newStep, arg |-> childName,
                   okNotExist |-> FALSE]
        IN Does(op, Edit(tree, <<>>, tree.name, op))

append ==
    \E child \in Givable :
        LET op == [kind |-> "append", child |-> child, arg |-> <<>>, okNotExist |-> FALSE]
        IN Does(op, Extend(tree, op))

prepend ==
    \E child \in Givable :
        LET op == [kind |-> "prepend", child |-> child, arg |-> <<>>, okNotExist |-> FALSE]
        IN Does(op, Extend(tree, op))

NextEdits == insertBefore \/ insertAfter \/ remove \/ replace \/ append \/ prepend

SpecEdits == InitEdits /\ [][NextEdits]_vars

\* every element of a tree with its composite name, the root first
Elements(t) ==
    <<[node |-> t, cn |-> t.name]>> \o collapsedChildrenAndParents(t, t.name)

\* C24: after any sequence of insertBefore, insertAfter, append, prepend,
\* remove and replace, the names of the children of every node are pairwise
\* distinct and the composite names of all elements of the tree are pairwise
\* distinct.
C24_TreeInvariant ==
    LET es == Elements(tree)
    IN /\ \A x \in 1..Len(es) : \A i, j \in 1..Len(es[x].node.steps) :
              i # j => es[x].node.steps[i].name # es[x].node.steps[j].name
       /\ \A x, y \in 1..Len(es) : x # y => es[x].cn # es[y].cn

\* the ordered children list of every node of a tree, by identity
RECURSIVE Children(_)
Children(node) ==
    [steps |-> [i \in 1..Len(node.steps) |-> Children(node.steps[i])], id |-> node.id]

\* C25: for every tree, existing step x and new element c, insertBefore(x, c)
\* followed by remove(c.name) restores the ordered children list of every
\* node of the tree.
C25_InsertRemoveRoundTrip ==
    (/\ exe.op2.kind = "insertBefore" /\ exe.res2 = "none"
     /\ exe.op.kind = "remove" /\ exe.op.arg = exe.op2.child.name) =>
        /\ exe.res = "none"
        /\ Children(tree) = Children(exe.pre2)

RECURSIVE LeafPlaces(_, _)
LeafPlaces(node, p) ==
    Concat([i \in 1..Len(node.steps) |->
        IF IsPipeline(node.steps[i]) THEN LeafPlaces(node.steps[i], Append(p, i))
        ELSE <<Append(p, i)>>])

\* the leaves of the tree before the last edit that its suffix matches
Matching ==
    {i \in 1..Len(collapsedNames(exe.pre, exe.pre.name)) :
        EndsWith(collapsedNames(exe.pre, exe.pre.name)[i], exe.op.arg)}

\* the tree before the last edit with the edit made at the first match
AtFirstMatch ==
    LET place == LeafPlaces(exe.pre, <<>>)[MinOf(Matching)]
    IN SetAt(exe.pre, DropLast(place),
             EditHere(NodeAt(exe.pre, DropLast(place)), exe.op, place[Len(place)]))

\* C27: a structural edit whose suffix matches no descendant fails with a
\* not-found error and leaves the tree unchanged, except remove with
\* okNotExist, which returns without changing anything; when several
\* descendants match the suffix, the edit applies to the first match in
\* depth-first order and to no other.
C27_NotFoundAndFirstMatch ==
    exe.op.kind \in {"insertBefore", "insertAfter", "remove", "replace"} =>
        /\ Matching = {} =>
              /\ tree = exe.pre
              /\ exe.res = IF exe.op.kind = "remove" /\ exe.op.okNotExist
                           THEN "none" ELSE "PipelineHalted"
        /\ Cardinality(Matching) > 1 =>
              /\ exe.res = "none"
              /\ Children(tree) = Children(AtFirstMatch)

(***************************************************************************)
(* copy().  The objects are numbered; 0 is None.  An element holds its     *)
(* parent, its _reporter and its _writer; a Reporter or Writer is known by *)
(* the element that created it (Reporter(self), Writer(self)).             *)
(***************************************************************************)
None == 0

Object(kind, name, parent, steps) ==
    [name |-> name, kind |-> kind, steps |-> steps, parent |-> parent,
     reporter |-> None, writer |-> None, onCopy |-> FALSE, origin |-> None]

NoCopy == [kind |-> "none", pre |-> Object("leaf", <<>>, None, <<>>), orig |-> None,
           clone |-> None]

\* P[A] and a leaf R that has no parent
InitCopy ==
    /\ tree = TreeFlat
    /\ cache = [e \in ElemNames(tree) |-> EmptySlot]
    /\ memo = [e \in ElemNames(tree) |-> NoneHash]
    /\ iids = [e \in ElemNames(tree) |-> NoStep]
    /\ fnVer = [l \in LeafNames(tree) |-> 0]
    /\ maxSaved = MaxSavedLimit
    /\ last = NoRun
    /\ prev = NoRun
    /\ nruns = 0
    /\ exe = [phase |-> "copy",
              objs |-> <<Object("pipe", <<"P">>, None, <<2>>),
                         Object("leaf", <<"A">>, 1, <<>>),
                         Object("leaf", <<"R">>, None, <<>>)>>,
              copied |-> NoCopy]

\* the property reporter: created on the first read, unless a copy is on
reporter ==
    \E e \in 1..Len(exe.objs) :
        /\ exe.phase = "copy"
        /\ exe.objs[e].reporter = None /\ ~exe.objs[e].onCopy
        /\ exe' = [exe EXCEPT !.objs[e].reporter = e]
        /\ Fixed

\* the property writer: created on the first read
writer ==
    \E e \in 1..Len(exe.objs) :
        /\ exe.phase = "copy"
        /\ exe.objs[e].writer = None
        /\ exe' = [exe EXCEPT !.objs[e].writer = e]
        /\ Fixed

\* the original after Block.copy: self.parent = None comes before the three
\* attributes are put aside, so the parent that is put aside and set again
\* is None; _reporter and _writer are set again as they were
CopyOriginal(self) == [self EXCEPT !.parent = None, !.onCopy = FALSE]

\* the clone: copy(self) while the three attributes are None, then each of
\* them is set to the value put aside
CopyClone(self, e) ==
    [self EXCEPT !.parent = None, !.onCopy = FALSE, !.origin = e]

\* Block.copy of the leaf e; the clone is the next object
BlockCopy(objs, e) == Append([objs EXCEPT ![e] = CopyOriginal(objs[e])], CopyClone(objs[e], e))

\* Block.copy() of a leaf
copy ==
    \E e \in 1..Len(exe.objs) :
        /\ exe.phase = "copy"
        /\ exe.objs[e].kind = "leaf"
        /\ Len(exe.objs) < MaxObjects
        /\ exe' = [exe EXCEPT !.objs = BlockCopy(exe.objs, e),
                              !.copied = [kind |-> "Block.copy", pre |-> exe.objs[e],
                                          orig |-> e, clone |-> Len(exe.objs) + 1]]
        /\ Fixed

\* the copies of the steps of a pipeline, one after the other
RECURSIVE CopySteps(_, _)
CopySteps(objs, steps) ==
    IF steps = <<>> THEN objs ELSE CopySteps(BlockCopy(objs, Head(steps)), Tail(steps))

\* Pipeline.copy(): a new pipeline over the copies of the steps; its
\* constructor makes it the parent of the copies (updateParams)
PipelineCopy ==
    \E e \in 1..Len(exe.objs) :
        /\ exe.phase = "copy"
        /\ exe.objs[e].kind = "pipe"
        /\ Len(exe.objs) + Len(exe.objs[e].steps) + 1 <= MaxObjects
        /\ LET n == Len(exe.objs)
               k == Len(exe.objs[e].steps)
               copies == CopySteps(exe.objs, exe.objs[e].steps)
               new == [Object("pipe", exe.objs[e].name, None, [i \in 1..k |-> n + i])
                          EXCEPT !.origin = e]
           IN exe' = [exe EXCEPT
                  !.objs = Append([i \in 1..(n + k) |->
                                      IF i > n THEN [copies[i] EXCEPT !.parent = n + k + 1]
                                      ELSE copies[i]], new),
                  !.copied = [kind |-> "Pipeline.copy", pre |-> exe.objs[e], orig |-> e,
                              clone |-> n + k + 1]]
        /\ Fixed

\* Pipeline.updateParams: the pipeline is made the parent of its steps
updateParams ==
    \E e \in 1..Len(exe.objs) :
        /\ exe.phase = "copy"
        /\ exe.objs[e].kind = "pipe"
        /\ \E s \in SeqRange(exe.objs[e].steps) : exe.objs[s].parent # e
        /\ exe' = [exe EXCEPT !.objs = [i \in 1..Len(exe.objs) |->
                      IF i \in SeqRange(exe.objs[e].steps)
                      THEN [exe.objs[i] EXCEPT !.parent = e] ELSE exe.objs[i]]]
        /\ Fixed

NextCopy == reporter \/ writer \/ copy \/ PipelineCopy \/ updateParams

SpecCopy == InitCopy /\ [][NextCopy]_vars

\* C28: copy() leaves the original leaf unchanged: after copy() returns,
\* the original's parent back-reference, reporter and writer are the same
\* objects as before the call.
C28_CopyLeavesOriginal ==
    exe.copied.kind = "Block.copy" =>
        /\ exe.objs[exe.copied.orig].parent = exe.copied.pre.parent
        /\ exe.objs[exe.copied.orig].reporter = exe.copied.pre.reporter
        /\ exe.objs[exe.copied.orig].writer = exe.copied.pre.writer

\* C29: a clone returned by copy() never refers to the same reporter (or
\* writer) object as the element it was copied from, whether or not the
\* original had created its reporter before the copy.
C29_CloneOwnSinks ==
    \A c \in 1..Len(exe.objs) :
        exe.objs[c].origin # None =>
            /\ exe.objs[c].reporter # None =>
                  exe.objs[c].reporter # exe.objs[exe.objs[c].origin].reporter
            /\ exe.objs[c].writer # None =>
                  exe.objs[c].writer # exe.objs[exe.objs[c].origin].writer

(***************************************************************************)
(* Memoized directories and the instance ID: a root pipeline P and its     *)
(* step, the leaf A.  Each holds _instID and the memoized _resultsDir and  *)
(* _cacheDir; the reads of the two properties made by an operation are     *)
(* logged with the instance ID the element had at the read.                *)
(***************************************************************************)
NoDir == <<>>

\* FileStructure._getDir
getDir(attr, inst, endpoint, ignoreInstance) ==
    <<attr>> \o
    (IF ignoreInstance THEN <<>>
     ELSE <<IF inst = NoInst THEN <<"nonInstanceSpecific">> ELSE inst>>) \o
    <<"configID", endpoint>>

PathInsts == {NoInst, <<"i">>, <<"j">>}

Element(endpoint) ==
    [endpoint |-> endpoint, instID |-> NoInst, resultsDir |-> NoDir, cacheDir |-> NoDir]

InitPaths ==
    /\ tree = Pipeline(<<"P">>, <<LeafA>>)
    /\ cache = [e \in ElemNames(tree) |-> EmptySlot]
    /\ memo = [e \in ElemNames(tree) |-> NoneHash]
    /\ iids = [e \in ElemNames(tree) |-> NoStep]
    /\ fnVer = [l \in LeafNames(tree) |-> 0]
    /\ maxSaved = MaxSavedLimit
    /\ last = NoRun
    /\ prev = NoRun
    /\ nruns = 0
    /\ exe = [phase |-> "paths", A |-> Element(<<"P", "A">>), P |-> Element(<<"P">>),
              reads |-> <<>>]

\* Block.reset: the memoized directories are forgotten
reset(o) == [o EXCEPT !.resultsDir = NoDir, !.cacheDir = NoDir]

\* the property resultsDir: the element after the read
resultsDir(o) ==
    IF o.resultsDir = NoDir
    THEN [o EXCEPT !.resultsDir = getDir("results_dir", o.instID, o.endpoint, FALSE)]
    ELSE o

\* the property cacheDir: the element after the read
cacheDir(o) ==
    IF o.cacheDir = NoDir
    THEN [o EXCEPT !.cacheDir = getDir("cache_dir", o.instID, o.endpoint, TRUE)]
    ELSE o

\* the entry of the log for a read of attr on the element o (after it)
ReadOf(attr, o) ==
    [inst |-> o.instID, attr |-> attr, endpoint |-> o.endpoint,
     dir |-> IF attr = "results_dir" THEN o.resultsDir ELSE o.cacheDir]

\* FileStructure.instID setter on the leaf: reset(), then _instID
SetLeafInstID ==
    \E v \in PathInsts :
        /\ exe.phase = "paths"
        /\ exe' = [exe EXCEPT !.A = [reset(exe.A) EXCEPT !.instID = v], !.reads = <<>>]
        /\ Fixed

\* Pipeline.instID setter: updateParams(_instID, resultsDir=None,
\* cacheDir=None) on the pipeline and on its steps, then step.instID
SetPipelineInstID ==
    \E v \in PathInsts :
        /\ exe.phase = "paths"
        /\ exe' = [exe EXCEPT !.P = [reset(exe.P) EXCEPT !.instID = v],
                              !.A = [reset(exe.A) EXCEPT !.instID = v],
                              !.reads = <<>>]
        /\ Fixed

\* a read of resultsDir or cacheDir by the user
ReadDir ==
    \E attr \in {"results_dir", "cache_dir"}, e \in {"P", "A"} :
        /\ exe.phase = "paths"
        /\ LET o == IF e = "P" THEN exe.P ELSE exe.A
               o1 == IF attr = "results_dir" THEN resultsDir(o) ELSE cacheDir(o)
           IN exe' = [exe EXCEPT !.P = IF e = "P" THEN o1 ELSE @,
                                 !.A = IF e = "A" THEN o1 ELSE @,
                                 !.reads = <<ReadOf(attr, o1)>>]
        /\ Fixed

\* Pipeline._run walking its steps: step._instID = self._instID,
\* step.reset(), then Block._run, which resets and makes resultsDir
RunSteps ==
    /\ exe.phase = "paths"
    /\ LET a == resultsDir(reset([exe.A EXCEPT !.instID = exe.P.instID]))
       IN exe' = [exe EXCEPT !.A = a, !.reads = <<ReadOf("results_dir", a)>>]
    /\ Fixed

\* Pipeline.clearResults(instance): _instID is assigned for the time of the
\* call, on the pipeline and on each step, and assigned back
clearResults ==
    \E instance \in PathInsts :
        /\ exe.phase = "paths"
        /\ LET p0 == IF instance # NoInst THEN [exe.P EXCEPT !.instID = instance]
                     ELSE exe.P
               \* getChildInstances(step): the instance of the root
               a1 == resultsDir([exe.A EXCEPT !.instID = p0.instID])
               p1 == resultsDir(p0)
           IN exe' = [exe EXCEPT !.A = [a1 EXCEPT !.instID = exe.A.instID],
                                 !.P = [p1 EXCEPT !.instID = exe.P.instID],
                                 !.reads = <<ReadOf("results_dir", a1),
                                             ReadOf("results_dir", p1)>>]
        /\ Fixed

\* Pipeline.clearCache(instance): the same with the stores below cacheDir
clearCache ==
    \E instance \in PathInsts :
        /\ exe.phase = "paths"
        /\ LET p0 == IF instance # NoInst THEN [exe.P EXCEPT !.instID = instance]
                     ELSE exe.P
               a1 == cacheDir([exe.A EXCEPT !.instID = p0.instID])
               p1 == cacheDir(p0)
           IN exe' = [exe EXCEPT !.A = [a1 EXCEPT !.instID = exe.A.instID],
                                 !.P = [p1 EXCEPT !.instID = exe.P.instID],
                                 !.reads = <<ReadOf("cache_dir", a1),
                                             ReadOf("cache_dir", p1)>>]
        /\ Fixed

NextPaths ==
    SetLeafInstID \/ SetPipelineInstID \/ ReadDir \/ RunSteps \/ clearResults \/ clearCache

SpecPaths == InitPaths /\ [][NextPaths]_vars

\* the directory that the instance ID inst gives for attr
Derived(attr, inst, endpoint) == getDir(attr, inst, endpoint, attr = "cache_dir")

\* C30: after any change of an element's instance ID (through the instID
\* setter, through parent-to-child propagation during a run, or through the
\* temporary reassignment done by clearCache/clearResults/runSteps), a
\* resultsDir or cacheDir read afterwards is the one derived from the
\* current instance ID, never one memoized for the previous ID: every read
\* made by an operation gives the derived directory, and a directory that
\* is memoized when the operation ends is the derived one.
C30_PathsFollowInstID ==
    /\ \A i \in 1..Len(exe.reads) :
          exe.reads[i].dir = Derived(exe.reads[i].attr, exe.reads[i].inst,
                                     exe.reads[i].endpoint)
    /\ \A o \in {exe.P, exe.A} :
          /\ o.resultsDir \in {NoDir, Derived("results_dir", o.instID, o.endpoint)}
          /\ o.cacheDir \in {NoDir, Derived("cache_dir", o.instID, o.endpoint)}

(***************************************************************************)
(* Block.run step by step: the wrapper Cacher.cached around Block._run of  *)
(* one leaf.  A Python value is a record: None, a scalar or a tuple.       *)
(***************************************************************************)
PyNone == [v |-> <<>>, t |-> "None"]
PyScalar(x) == [v |-> <<x>>, t |-> "scalar"]
PyTuple(items) == [v |-> items, t |-> "tuple"]

\* what a fn may return
FnResults ==
    {PyNone} \cup {PyScalar(x) : x \in {"r", "s"}} \cup
    {PyTuple(s) : s \in UNION {[1..n -> {"r", "s"}] : n \in 0..MaxTupleLen}}

\* the end of Block._run: `if ret is not None and not isinstance(ret,
\* tuple): ret = (ret,)`
Normalise(ret) ==
    IF ret.t # "None" /\ ret.t # "tuple" THEN PyTuple(<<ret.v[1]>>) ELSE ret

ENOSPC == 28
\* any errno but 28
OtherErrno == ENOSPC + 1
NoErr == [kind |-> "none", errno |-> 0]
OSError(errno) == [kind |-> "OSError", errno |-> errno]
Pending == [kind |-> "pending", val |-> PyNone, err |-> NoErr]

InitWrapper ==
    /\ tree = Pipeline(<<"P">>, <<LeafA>>)
    /\ cache = [e \in ElemNames(tree) |-> EmptySlot]
    /\ memo = [e \in ElemNames(tree) |-> NoneHash]
    /\ iids = [e \in ElemNames(tree) |-> NoStep]
    /\ fnVer = [l \in LeafNames(tree) |-> 0]
    /\ maxSaved = MaxSavedLimit
    /\ last = NoRun
    /\ prev = NoRun
    /\ nruns = 0
    /\ \E forceDo \in BOOLEAN, c \in BOOLEAN, valid \in BOOLEAN, stored \in FnResults :
          exe = [cache |-> c, out |-> Pending, phase |-> "wrap", stored |-> Normalise(stored),
                 forceDo |-> forceDo, ret |-> PyNone,
                 pc |-> "call", err |-> NoErr, \* what checkInput answers and what the output store holds
                 valid |-> valid, retried |-> FALSE,
                 attempts |-> 0, fnCalls |-> 0, evicted |-> 0, raw |-> PyNone,
                 errs |-> <<>>]

\* inner: `if not forceDo and self.checkInput(args)`: the cached output is
\* returned, else the loop is entered
WrapperCall ==
    /\ exe.phase = "wrap" /\ exe.pc = "call"
    /\ exe' = IF ~exe.forceDo /\ exe.valid
              THEN [exe EXCEPT !.pc = "done",
                               !.out = [kind |-> "return", val |-> exe.stored, err |-> NoErr]]
              ELSE [exe EXCEPT !.pc = "try"]
    /\ Fixed

\* Block._run fails before fn is reached (clearResults, makedirs), with an
\* OSError that reaches the wrapper
MethodFailsEarly ==
    \E errno \in {ENOSPC, OtherErrno} :
        /\ exe.phase = "wrap" /\ exe.pc = "try"
        /\ exe' = [exe EXCEPT !.attempts = @ + 1, !.err = OSError(errno), !.pc = "except"]
        /\ Fixed

\* Block._run invokes fn, which returns; the result is normalised
MethodReturns ==
    \E r \in FnResults :
        /\ exe.phase = "wrap" /\ exe.pc = "try"
        /\ exe' = [exe EXCEPT !.attempts = @ + 1, !.fnCalls = @ + 1, !.raw = r,
                              !.ret = Normalise(r),
                              !.pc = IF exe.cache THEN "update" ELSE "finally",
                              !.out = IF exe.cache THEN @
                                      ELSE [kind |-> "return", val |-> Normalise(r),
                                            err |-> NoErr]]
        /\ Fixed

\* Block._run invokes fn, which raises (an OSError of fn included): the
\* except clause of Block._run lets a registered exception through and
\* raises BlockError for the others; neither is an OSError
MethodFnRaises ==
    \E kind \in {"SkipIteration", "OSError", "Other"} :
        /\ exe.phase = "wrap" /\ exe.pc = "try"
        /\ exe' = [exe EXCEPT !.attempts = @ + 1, !.fnCalls = @ + 1, !.pc = "finally",
                              !.out = [kind |-> "raise", val |-> PyNone,
                                       err |-> [kind |-> BlockRaises(Exc(kind, <<>>)).kind,
                                                errno |-> 0]]]
        /\ Fixed

\* `if self.cache: self.updateCache(ret)`: the save succeeds or raises
WrapperUpdateCache ==
    /\ exe.phase = "wrap" /\ exe.pc = "update"
    /\ \/ exe' = [exe EXCEPT !.pc = "finally", !.stored = exe.ret, !.valid = TRUE,
                             !.out = [kind |-> "return", val |-> exe.ret, err |-> NoErr]]
       \/ \E errno \in {ENOSPC, OtherErrno} :
             exe' = [exe EXCEPT !.pc = "except", !.err = OSError(errno)]
    /\ Fixed

\* (variant: any OSError is retried once)
RetriesAnyError(err, retried, c) == ~retried /\ c
\* the except clause: `if retried or not self.cache: raise`, `if err.errno
\* != 28: raise`
Retries(err, retried, c) == ~retried /\ c /\ err.errno = ENOSPC

\* except OSError: the error is raised again, or the oldest 100 files are
\* removed (clearCache(oldest100=True)) and the loop goes on
WrapperExcept ==
    /\ exe.phase = "wrap" /\ exe.pc = "except"
    /\ exe' = IF Retries(exe.err, exe.retried, exe.cache)
              THEN [exe EXCEPT !.pc = "finally", !.retried = TRUE, !.evicted = @ + 1,
                               !.errs = Append(@, exe.err), !.err = NoErr]
              ELSE [exe EXCEPT !.pc = "finally", !.errs = Append(@, exe.err),
                               !.out = [kind |-> "raise", val |-> PyNone, err |-> exe.err],
                               !.err = NoErr]
    /\ Fixed

\* finally: clearCache(ifEmpty=True), then the return, the raise or the
\* next turn of the loop
WrapperFinally ==
    /\ exe.phase = "wrap" /\ exe.pc = "finally"
    /\ exe' = [exe EXCEPT !.pc = IF exe.out = Pending THEN "try" ELSE "done"]
    /\ Fixed

NextWrapper ==
    \/ WrapperCall \/ MethodFailsEarly \/ MethodReturns \/ MethodFnRaises
    \/ WrapperUpdateCache \/ WrapperExcept \/ WrapperFinally

SpecWrapper == InitWrapper /\ [][NextWrapper]_vars

\* a value as the tuple that is stated for it
AsTuple(ret) ==
    IF ret.t = "tuple" THEN ret
    ELSE IF ret.t = "scalar" THEN PyTuple(<<ret.v[1]>>)
    ELSE PyTuple(<<>>)

\* C31: Block.run returns a tuple for every fn result: a tuple is returned
\* as is, a scalar s as the 1-tuple (s,), and None as the empty tuple.
C31_OutputNormalisation ==
    (exe.pc = "done" /\ exe.out.kind = "return" /\ exe.fnCalls > 0) =>
        exe.out.val = AsTuple(exe.raw)

\* C33: when running or saving raises OutOfSpace with caching enabled the
\* wrapper deletes the oldest 100 files and retries exactly once, so fn is
\* invoked at most twice per call; a second OutOfSpace is raised again; with
\* caching disabled or any other OS error the first error is raised again
\* without a retry.
C33_OutOfSpaceRetry ==
    /\ exe.fnCalls <= 2 /\ exe.attempts <= 2 /\ exe.evicted <= 1
    /\ exe.pc = "done" /\ exe.attempts > 0 =>
          IF exe.errs = <<>>
          THEN exe.attempts = 1 /\ exe.evicted = 0
          ELSE IF exe.errs[1].errno = ENOSPC /\ exe.cache
          THEN /\ exe.evicted = 1 /\ exe.attempts = 2 /\ Len(exe.errs) <= 2
               /\ Len(exe.errs) = 2 =>
                     exe.out = [kind |-> "raise", val |-> PyNone, err |-> exe.errs[2]]
          ELSE /\ exe.evicted = 0 /\ exe.attempts = 1 /\ Len(exe.errs) = 1
               /\ exe.out = [kind |-> "raise", val |-> PyNone, err |-> exe.errs[1]]

C33_Witness ==
    /\ exe.phase = "wrap" /\ exe.pc = "done" /\ exe.cache
    /\ exe.errs = <<OSError(ENOSPC), OSError(ENOSPC)>>
    /\ exe.fnCalls = 2 /\ exe.evicted = 1 /\ exe.out.kind = "raise"

(***************************************************************************)
(* The retry loop of IterativePipeline._singleTask for one key.            *)
(***************************************************************************)
\* how one attempt (ChildPipeline(...)._run) ends
AttemptEnds == {"ok", "UntilStepReached", "SkipIteration", "BlockError", "PipelineBreak"}

InitRetry ==
    /\ tree = Pipeline(<<"P">>, <<LeafA>>)
    /\ cache = [e \in ElemNames(tree) |-> EmptySlot]
    /\ memo = [e \in ElemNames(tree) |-> NoneHash]
    /\ iids = [e \in ElemNames(tree) |-> NoStep]
    /\ fnVer = [l \in LeafNames(tree) |-> 0]
    /\ maxSaved = MaxSavedLimit
    /\ last = NoRun
    /\ prev = NoRun
    /\ nruns = 0
    \* run: `assert maxTries >= 1`
    /\ \E maxTries \in 1..MaxTries :
          exe = [phase |-> "retry", res |-> [kind |-> "none", data |-> <<>>], pc |-> "loop", maxTries |-> maxTries,
                 retries |-> 0, ends |-> <<>>]

\* (variant: one more attempt)
GivesUpLate(retries, maxTries) == retries = maxTries
\* except BaseException: `if retries == maxTries - 1: raise`
GivesUp(retries, maxTries) == retries = maxTries - 1

\* one turn of `while True`: the attempt, the except clause that matches
\* its end, and the finally clause
singleTaskAttempt ==
    \E end \in AttemptEnds :
        /\ exe.phase = "retry" /\ exe.pc = "loop"
        /\ exe' =
             LET e1 == [exe EXCEPT !.ends = Append(@, end)]
             IN IF end = "ok"
                THEN [e1 EXCEPT !.pc = "done",
                                !.res = [kind |-> "ok", data |-> SingleTaskReturn(<<"o">>)]]
                ELSE IF end \in {"UntilStepReached", "SkipIteration"}
                THEN [e1 EXCEPT !.pc = "done", !.res = [kind |-> "value", data |-> <<end>>]]
                ELSE IF GivesUp(exe.retries, exe.maxTries)
                THEN [e1 EXCEPT !.pc = "done", !.res = [kind |-> "raise", data |-> <<end>>]]
                ELSE [e1 EXCEPT !.retries = @ + 1]
        /\ Fixed

NextRetry == singleTaskAttempt

SpecRetry == InitRetry /\ [][NextRetry]_vars /\ WF_vars(NextRetry)

RetryBound ==
    /\ Len(exe.ends) <= exe.maxTries
    /\ \A i \in 1..Len(exe.ends) :
          exe.ends[i] \in {"UntilStepReached", "SkipIteration"} =>
              /\ i = Len(exe.ends) /\ exe.pc = "done"
              /\ exe.res = [kind |-> "value", data |-> <<exe.ends[i]>>]
    /\ exe.pc = "done" /\ exe.res.kind = "raise" =>
          /\ Len(exe.ends) = exe.maxTries
          /\ exe.res.data = <<exe.ends[Len(exe.ends)]>>
          /\ \A i \in 1..Len(exe.ends) : exe.ends[i] \in {"BlockError", "PipelineBreak"}

\* C34: a task makes at most maxTries attempts; an attempt that ends with
\* UntilStepReached or SkipIteration is never retried and is returned as a
\* value; after maxTries attempts that end in another error the last error
\* propagates; the loop terminates for every maxTries >= 1.
C34_RetryBound == []RetryBound /\ <>(exe.pc = "done")

C34_Witness ==
    /\ exe.phase = "retry" /\ exe.pc = "done" /\ exe.maxTries = 3
    /\ exe.ends = <<"BlockError", "PipelineBreak", "BlockError">>
    /\ exe.res = [kind |-> "raise", data |-> <<"BlockError">>]

(***************************************************************************)
(* The order of a cold run.                                                *)
(***************************************************************************)
\* the last run started from empty stores, without untilStep, and returned
ColdRun ==
    /\ last.ran /\ last.exc = NoExc /\ ~Truthy(last.args.until)
    /\ \A e \in DOMAIN last.pre : last.pre[e] = EmptySlot

CallOf(leaf) ==
    last.log.calls[CHOOSE i \in 1..Len(last.log.calls) : last.log.calls[i].leaf = leaf]
UpdateOf(e) ==
    last.log.updates[CHOOSE i \in 1..Len(last.log.updates) : last.log.updates[i].e = e]
\* the input a child received
InOf(ch, ccn) == IF IsPipeline(ch) THEN UpdateOf(ccn).inp ELSE CallOf(ccn).inp
\* the first leaf that is invoked below a child
FirstLeaf(ch, ccn) == IF IsPipeline(ch) THEN collapsedNames(ch, ccn)[1] ELSE ccn

\* below node, which received inp: each child received the output of the
\* child before it, and started when that child was the last to have
\* returned
RECURSIVE Chained(_, _, _)
Chained(node, cn, inp) ==
    \A i \in 1..Len(node.steps) :
        LET ch == node.steps[i]
            ccn == compositeName(cn, ch.name)
            before == compositeName(cn, node.steps[i - 1].name)
        IN /\ InOf(ch, ccn) = IF i = 1 THEN inp ELSE UpdateOf(before).out
           /\ i > 1 => /\ CallOf(FirstLeaf(ch, ccn)).at >= 1
                       /\ last.log.done[CallOf(FirstLeaf(ch, ccn)).at].e = before
           /\ IsPipeline(ch) => Chained(ch, ccn, InOf(ch, ccn))

\* C32: on a run with empty caches the fn of each leaf is invoked exactly
\* once, in the depth-first order of the children; child i starts after
\* child i-1 has returned and receives child i-1's output as its input (the
\* first child receives the input of the pipeline).
C32_ColdRunOrder ==
    ColdRun =>
        /\ Invoked = collapsedNames(tree, tree.name)
        /\ Chained(tree, tree.name, last.args.inp)

C32_Witness ==
    /\ ColdRun /\ tree = TreeNested /\ last.args.inp = <<"x">>
    /\ Len(last.log.calls) = 4
    /\ CallOf(<<"P", ".", "C">>).inp = <<"x", "a", "b", "d">>

(***************************************************************************)
(* Runs that return mixed with runs in which the fn of one leaf raises.    *)
(***************************************************************************)
\* a run on any input and instance in which the fn of one leaf raises when
\* it is invoked
RunFailing ==
    \E inst \in Insts, inp \in Inputs, leaf \in LeafNames(tree), kind \in FaultKinds :
        RootRun(Args(inst, inp, FALSE, NoStep, {}),
                [kind |-> kind, data |-> IF kind = "UntilStepReached" THEN <<"u">> ELSE <<>>,
                 leaf |-> leaf])

NextFailing == Run \/ RunFailing

SpecFailing == InitOf({TreeFlat}) /\ [][NextFailing]_vars

\* the fn of the leaf of the last run was invoked and raised
LeafFailed ==
    /\ last.ran /\ last.fault.kind \notin {"none", "Killed"}
    /\ \E i \in 1..Len(last.log.calls) : last.log.calls[i].leaf = last.fault.leaf

\* C38: when the fn of a leaf raises (an exception of a signalling kind or
\* not), none of the leaf's input_hash, output_hash and output stores nor
\* hash.pkl is written, and an entry stored before for the instance remains
\* as it was.
C38_FailingLeafKeepsCache ==
    LeafFailed => cache[last.fault.leaf] = last.pre[last.fault.leaf]

C38_Witness ==
    /\ LeafFailed
    /\ Has(last.pre[last.fault.leaf].out, InstKey(last.args.inst))
    /\ Has(last.pre[last.fault.leaf].ih, InstKey(last.args.inst))
    /\ last.pre[last.fault.leaf].hash # NoFile

\* C39: after every structural edit (insertBefore, insertAfter, append,
\* prepend, remove, replace) the names of every node are the names of its
\* children in order, so that namedChildren maps the name of each child to
\* that child.
C39_NamesFollowChildren ==
    exe.phase = "edit" =>
        LET es == Elements(tree)
        IN \A x \in 1..Len(es) :
              IsPipeline(es[x].node) => es[x].node.names = NamesOf(es[x].node.steps)

\* the last run was a run of an iterative pipeline with no keys
NoKeysRun == last.ran /\ tree.kind = "iter" /\ KeysOf(last.args.inp) = <<>>

InputOf(el, out) ==
    Take(out, Len(out) - (IF IsPipeline(el.node) THEN Len(collapsedNames(el.node, el.cn))
                          ELSE 1))
\* the hash the element computes of that input (Block.run hashes the tuple
\* of its arguments)
InputHashOf(el, out) ==
    IF IsPipeline(el.node) THEN Hash(InputOf(el, out)) ELSE HashArgs(InputOf(el, out))

\* C35: over any sequence of runs (forced, with forced steps, with untilStep
\* and plain, for several inputs and instances) the input hash stored for
\* an instance of an element is the hash of the input from which the output
\* stored for that instance was computed, so that an output returned from
\* the cache was produced on an input with the hash of the current input.
C35_CacheHitSoundness ==
    \A el \in SeqRange(collapsedChildrenAndParents(tree, tree.name)) \cup
              {[node |-> tree, cn |-> tree.name]} :
        \A i \in 1..Len(cache[el.cn].ih) :
            LET k == cache[el.cn].ih[i].k
            IN Has(cache[el.cn].out, k) =>
                  cache[el.cn].ih[i].v = InputHashOf(el, Get(cache[el.cn].out, k))

(***************************************************************************)
(* The stores of one Cacher and one InstancesCacher under updateCache      *)
(* (with its eviction) and clearCache(instance).                           *)
(***************************************************************************)
InitStores ==
    /\ tree = LeafA
    /\ cache = [o \in {CacherObj, InstancesObj} |-> EmptySlot]
    /\ memo = [o \in {CacherObj, InstancesObj} |-> NoneHash]
    /\ iids = [o \in {CacherObj, InstancesObj} |-> <<"k">>]
    /\ fnVer = [l \in LeafNames(tree) |-> 0]
    /\ maxSaved \in 1..MaxSavedLimit
    /\ last = NoRun
    /\ prev = NoRun
    /\ nruns = 0
    \* what has happened: an update that evicted, a clear that removed
    /\ exe = [phase |-> "stores", evicted |-> FALSE, cleared |-> FALSE]

\* updateCache(output) on one of the objects, whose instID is inst, with
\* the input hash the object remembers
StoresUpdateCache ==
    \E o \in {CacherObj, InstancesObj}, inst \in CacherInsts, out \in {<<"y">>, <<"z">>} :
        LET code == Hash(o)
            post == IF o = InstancesObj
                    THEN updateCacheIC(cache[o], inst, memo[o], out, code, maxSaved,
                                       iids[o])
                    ELSE updateCache(cache[o], inst, memo[o], out, code, maxSaved)
        IN /\ exe.phase = "stores" /\ nruns < MaxOps
           /\ cache' = [cache EXCEPT ![o] = post]
           /\ exe' = [exe EXCEPT !.evicted =
                         @ \/ \E k \in KeySet(cache[o].ih) : k \notin KeySet(post.ih)]
           /\ nruns' = nruns + 1
           /\ UNCHANGED <<tree, memo, iids, fnVer, maxSaved, last, prev>>

\* clearCache(instance) on one of the objects
StoresClearCache ==
    \E o \in {CacherObj, InstancesObj}, inst \in CacherInsts :
        /\ exe.phase = "stores" /\ nruns < MaxOps
        /\ cache' = [cache EXCEPT ![o] = clearInstance(@, inst)]
        /\ exe' = [exe EXCEPT !.cleared = @ \/ Has(cache[o].ih, InstKey(inst))]
        /\ nruns' = nruns + 1
        /\ UNCHANGED <<tree, memo, iids, fnVer, maxSaved, last, prev>>

NextStores == ComputeInputHash \/ StoresUpdateCache \/ StoresClearCache

SpecStores == InitStores /\ [][NextStores]_vars

\* C36: whenever no save, eviction or clear of an element is in progress,
\* the key sets of its input_hash, output_hash and output stores are equal,
\* after any sequence of updateCache, eviction and clearCache(instance).
C36_StoreCoherence ==
    exe.phase = "stores" =>
        \A o \in {CacherObj, InstancesObj} :
            /\ KeySet(cache[o].ih) = KeySet(cache[o].oh)
            /\ KeySet(cache[o].oh) = KeySet(cache[o].out)

C36_Witness ==
    /\ exe.phase = "stores" /\ exe.evicted /\ exe.cleared
    /\ KeySet(cache[CacherObj].ih) = {<<"j">>}
    /\ KeySet(cache[CacherObj].out) = {<<"j">>}

\* the composite names of the iterative pipelines of the tree
IterNames ==
    {el.cn : el \in {x \in SeqRange(collapsedChildrenAndParents(tree, tree.name)) \cup
                           {[node |-> tree, cn |-> tree.name]} : x.node.kind = "iter"}}

\* C37: during one iterative run over its keys (any number of keys,
\* maximumSavedNum >= 1) the eviction that the updateCache of a child element
\* triggers never deletes an entry that was written for another key earlier
\* in the same run, and never the entry just written: every entry the run
\* wrote for a key is in the stores when the run ends.
C37_EvictionSparesTheRun ==
    last.ran =>
        \A i \in 1..Len(last.log.updates) :
            LET u == last.log.updates[i]
            IN (\E it \in IterNames : isParentOf(it, u.e)) =>
                  /\ u.loaded = u.out
                  /\ Has(cache[u.e].ih, InstKey(u.inst))
                  /\ Has(cache[u.e].out, InstKey(u.inst))

====
